---- MODULE Spec2Model ----
(***************************************************************************)
(* A model of cubetime's timing core: the comparison of a time against a   *)
(* baseline (core/CompareTime.py), the store of runs (core/TimeSet.py),    *)
(* the key-event timer (core/Timer.py) and the prompt-driven timing        *)
(* session of the store (TimeSet.time).                                    *)
(*                                                                         *)
(* A float is modelled as an optional integer: NaN is the empty tuple and  *)
(* the number x is <<x>>, so that arithmetic on a missing value yields a   *)
(* missing value, as IEEE arithmetic does.                                 *)
(***************************************************************************)
EXTENDS Integers, Sequences, FiniteSets, TLC

VARIABLES
    now,            \* the value time.time() / datetime.now() returns
    frontend,       \* what this process times with: "timer" (core/Timer.py) or
                    \* "prompt" (TimeSet.time)
    \* ---- core/Timer.py: one Timer object and its call of time()
    unix_times,     \* Timer._unix_times ([] while it is None)
    pc,             \* where Timer.time() stands
    dispatched,     \* the last func name log_dispatch was given
    report,         \* the arguments of the last print_segment_terminal_output
    final_times,    \* the local final_times of Timer.time()
    asked,          \* how many times this call of time() ran click.confirm
    answer,         \* what click.confirm returned
    returned,       \* what Timer.time() returned
    comparison,     \* Timer.comparison
    \* ---- core/RockBandPedalTimer.py: the fields the pedal timer adds, and its _time()
    _started,               \* RockBandPedalTimer._started
    _extreme_on_previous,   \* RockBandPedalTimer._extreme_on_previous
    pedal_pc,               \* where RockBandPedalTimer._time() stands
    chunk,                  \* whether the last chunk given to _process_audio went
                            \* below the threshold (None before the first chunk)
    \* ---- core/TimeSet.py: one TimeSet object and its call of time()
    times,          \* TimeSet.times, the rows of the DataFrame
    min_best,       \* TimeSet.min_best
    dtype,          \* the dtype of the segment columns of TimeSet.times
    ts_pc,          \* where TimeSet.time() stands
    ts_date,        \* the local date of TimeSet.time()
    ts_unix_times,  \* the local unix_times of TimeSet.time()
    ts_report,      \* the arguments of the last print_segment_terminal_output
    ts_new_times,   \* the local new_times of _process_raw_times
    ts_asked,       \* how many times this call of time() ran click.confirm
    ts_answer,      \* what click.confirm returned
    ts_comparison,  \* the local comparison of TimeSet.time()
    \* ---- core/CompareTime.py: one call of compare / compare_terminal_output
    cmp_in,         \* the arguments of the call
    cmp_out,        \* what the call returned
    \* ---- core/TaskIndex.py: one TaskIndex object and the data directory
    timed_tasks,        \* TaskIndex.timed_tasks
    alias_dictionary,   \* TaskIndex.alias_dictionary
    directories,        \* the directories of tasks in TaskIndex.data_directory
    index_called,       \* the method of the index called last
    index_raised,       \* the exception that call raised
    \* ---- core/Config.py: the global configuration
    config_values,      \* _GlobalConfig.values
    config_file,        \* what the yaml file of the configuration holds
    config_raised       \* the exception the last assignment raised

timerVars == <<unix_times, pc, dispatched, report, final_times, asked, answer, returned, comparison>>
pedalVars == <<_started, _extreme_on_previous, pedal_pc, chunk>>
sessionVars == <<ts_pc, ts_date, ts_unix_times, ts_report, ts_new_times, ts_asked, ts_answer,
                 ts_comparison>>
compareVars == <<cmp_in, cmp_out>>
storeVars == <<times, min_best, dtype>>
indexVars == <<timed_tasks, alias_dictionary, directories, index_called, index_raised>>
configVars == <<config_values, config_file, config_raised>>
vars == <<now, frontend, timerVars, pedalVars, storeVars, sessionVars, compareVars,
          indexVars, configVars>>

---------------------------------------------------------------------------
(* Bounds of the model. *)

\* len(TimeSet.segments), the N of a store
NumSegments == 2
\* len(Timer.segments), the N of a key-event timer
TimerNumSegments == 3
\* the clock stops advancing here
MaxClock == 3
\* the largest segment time given to add_row and to compare
MaxTime == 2
\* the most runs a store is given
MaxRuns == 2
\* the most tasks in the index
MaxTasks == 2
\* the most strings in an aliases argument
MaxAliases == 2

---------------------------------------------------------------------------
(* Floats with NaN. *)

NaN == <<>>
Num(x) == <<x>>
IsNaN(a) == a = NaN
Val(a) == a[1]

\* A float that is not a whole number is the fraction <<n, d>> in lowest terms,
\* d > 1; rounding is not modelled.
Numer(a) == a[1]
Denom(a) == IF Len(a) = 2 THEN a[2] ELSE 1

RECURSIVE GCD(_, _)
GCD(m, n) == IF n = 0 THEN m ELSE GCD(n, m % n)

\* the float n / d, for d > 0
Rat(n, d) ==
    LET g == GCD(IF n < 0 THEN 0 - n ELSE n, d)
    IN  IF d \div g = 1 THEN <<n \div g>> ELSE <<n \div g, d \div g>>

\* a - b and a + b in IEEE arithmetic: NaN as soon as one operand is NaN
Sub(a, b) ==
    IF IsNaN(a) \/ IsNaN(b) THEN NaN
    ELSE IF Len(a) = 1 /\ Len(b) = 1 THEN Num(Val(a) - Val(b))
    ELSE Rat(Numer(a) * Denom(b) - Numer(b) * Denom(a), Denom(a) * Denom(b))
Add(a, b) ==
    IF IsNaN(a) \/ IsNaN(b) THEN NaN
    ELSE IF Len(a) = 1 /\ Len(b) = 1 THEN Num(Val(a) + Val(b))
    ELSE Rat(Numer(a) * Denom(b) + Numer(b) * Denom(a), Denom(a) * Denom(b))

\* a / n for a whole number n > 0
Div(a, n) == IF IsNaN(a) THEN NaN ELSE Rat(Numer(a), Denom(a) * n)

\* a < b in IEEE arithmetic: false as soon as one operand is NaN
Less(a, b) ==
    /\ ~IsNaN(a)
    /\ ~IsNaN(b)
    /\ Numer(a) * Denom(b) < Numer(b) * Denom(a)

\* np.all(np.isnan(v))
AllNaN(v) == \A i \in 1..Len(v) : IsNaN(v[i])
\* np.any(np.isnan(v))
AnyNaN(v) == \E i \in 1..Len(v) : IsNaN(v[i])

\* Python's None and a value that is not None
None == <<>>
Some(x) == <<x>>

\* seq[index] of Python for a sequence of length n: the 1-based position, or 0
\* where Python raises IndexError
PyIndex(n, index) ==
    IF index >= 0 /\ index < n THEN index + 1
    ELSE IF index < 0 /\ index >= 0 - n THEN n + index + 1
    ELSE 0

\* seq.pop() leaves seq without its last element
Pop(seq) == SubSeq(seq, 1, Len(seq) - 1)

---------------------------------------------------------------------------
(* core/Config.py: the key bindings of the timer actions. *)

global_config ==
    [ skip_keys     |-> {"s"},
      abort_keys    |-> {"esc", "a"},
      continue_keys |-> {"enter", "space", "c"},
      undo_keys     |-> {"u", "z"} ]

\* the keys a KeyboardEvents.Press can carry: the bound ones and one bound to nothing
Keys ==
    global_config.skip_keys \cup global_config.abort_keys
        \cup global_config.continue_keys \cup global_config.undo_keys \cup {"x"}

---------------------------------------------------------------------------
(* core/Timer.py *)

\* Timer.restart: the list of one timestamp, now
restart(t) == <<Num(t)>>

\* _undo with the test of the list made before the pop takes effect
_undo_RestartsEarly(ut, t) ==
    IF Len(Pop(ut)) > 1
    THEN [unix_times |-> Pop(ut), result |-> Some(TRUE)]
    ELSE [unix_times |-> restart(t), result |-> Some(FALSE)]

\* _undo that tells the loop to go on after a restart
_undo_GoesOn(ut, t) ==
    IF Pop(ut) # <<>>
    THEN [unix_times |-> Pop(ut), result |-> Some(TRUE)]
    ELSE [unix_times |-> restart(t), result |-> Some(TRUE)]

\* _undo that removes the last timestamp even when it is the start time
_undo_PopsStart(ut, t) == [unix_times |-> Pop(ut), result |-> Some(Pop(ut) # <<>>)]

\* Timer._undo: pops the last timestamp; an emptied list is restarted and the
\* loop is told to stop
_undo(ut, t) ==
    IF Pop(ut) # <<>>
    THEN [unix_times |-> Pop(ut), result |-> Some(TRUE)]
    ELSE [unix_times |-> restart(t), result |-> Some(FALSE)]

\* a skip that records the time of the key press
NewTimestamp_SkipIsNow(skipped, t) == Num(t)

\* the timestamp Timer._add_new_segment appends
NewTimestamp(skipped, t) == IF skipped THEN NaN ELSE Num(t)

\* the standalone and cumulative times Timer._add_new_segment reports
SegmentReport(ut, segment_index) ==
    [ segment_index |-> segment_index,
      standalone    |-> Sub(ut[Len(ut)], ut[Len(ut) - 1]),
      cumulative    |-> Sub(ut[Len(ut)], ut[1]) ]

\* Timer._add_new_segment
_add_new_segment(ut, segment_index, skipped, t) ==
    LET appended == Append(ut, NewTimestamp(skipped, t))
    IN  [ unix_times |-> appended,
          report     |-> Some(SegmentReport(appended, segment_index)) ]

\* the branch Timer._time_loop_iteration takes for a key
DispatchOf(key) ==
    IF key \in global_config.undo_keys THEN "undo"
    ELSE IF key \in global_config.continue_keys THEN "continue"
    ELSE IF key \in global_config.skip_keys THEN "skip"
    ELSE IF key \in global_config.abort_keys THEN "abort"
    ELSE "none"

\* Timer._time_loop_iteration: the new list, the report made (if any) and the
\* result, Some(TRUE) to go on, Some(FALSE) to break, None for a key bound to nothing
_time_loop_iteration(ut, key, t) ==
    LET segment_index == Len(ut) - 1
        func == DispatchOf(key)
    IN  IF func = "undo"
        THEN [ unix_times |-> _undo(ut, t).unix_times, report |-> None,
               result |-> _undo(ut, t).result ]
        ELSE IF func \in {"continue", "skip"}
        THEN [ unix_times |-> _add_new_segment(ut, segment_index, func = "skip", t).unix_times,
               report |-> _add_new_segment(ut, segment_index, func = "skip", t).report,
               result |-> Some(TRUE) ]
        ELSE IF func = "abort"
        THEN [ unix_times |-> ut, report |-> None, result |-> Some(FALSE) ]
        ELSE [ unix_times |-> ut, report |-> None, result |-> None ]

\* _print_next_segment_info that looks one segment too far
_print_next_segment_info_OffByOne(ut) == Len(ut) - 1 <= TimerNumSegments

\* Timer._print_next_segment_info: FALSE when segments[len(unix_times) - 1]
\* raises IndexError
_print_next_segment_info(ut) == PyIndex(TimerNumSegments, Len(ut) - 1) # 0

\* final_times made of the differences of consecutive timestamps
FinalTimes_Standalone(ut) ==
    [i \in 1..TimerNumSegments |->
        IF i <= Len(ut) - 1 THEN Sub(ut[i + 1], ut[i]) ELSE NaN]

\* the final_times of Timer.time: an array of NaN, its first len(unix_times) - 1
\* entries set to unix_times[1:], and unix_times[0] subtracted from all of it
FinalTimes(ut) ==
    LET blank == [i \in 1..TimerNumSegments |-> NaN]
        filled == [i \in 1..TimerNumSegments |->
                     IF i <= Len(ut) - 1 THEN ut[i + 1] ELSE blank[i]]
    IN  [i \in 1..TimerNumSegments |-> Sub(filled[i], ut[1])]

\* Timer.time that asks whatever the vector holds
TimerAsks_Always(ft) == TRUE

\* whether Timer.time goes on to click.confirm
TimerAsks(ft) == ~AllNaN(ft)

TimerInit ==
    /\ unix_times = <<>>
    /\ pc = "idle"
    /\ dispatched = "none"
    /\ report = None
    /\ final_times = <<>>
    /\ asked = 0
    /\ answer = None
    /\ returned = None

\* Timer.time up to its event loop: the start prompt is answered and the timer
\* restarted
TimerStart ==
    /\ frontend = "timer"
    /\ pc \in {"idle", "done", "raised"}
    /\ unix_times' = restart(now)
    /\ pc' = "running"
    /\ dispatched' = "none"
    /\ report' = None
    /\ final_times' = <<>>
    /\ asked' = 0
    /\ answer' = None
    /\ returned' = None
    /\ UNCHANGED <<now, frontend, indexVars, configVars, comparison, storeVars, sessionVars, compareVars, pedalVars>>

\* one KeyboardEvents.Press taken by the loop of Timer.time; when the loop
\* breaks, the rest of time() up to its return or its click.confirm
OnPress(key) ==
    /\ pc = "running"
    /\ LET it == _time_loop_iteration(unix_times, key, now)
           goes_on == IF it.result = None THEN TRUE
                      ELSE it.result = Some(TRUE) /\ _print_next_segment_info(it.unix_times)
           ft == FinalTimes(it.unix_times)
       IN  /\ unix_times' = it.unix_times
           /\ dispatched' = IF DispatchOf(key) = "none" THEN dispatched ELSE DispatchOf(key)
           /\ report' = IF it.report = None THEN report ELSE it.report
           /\ IF goes_on
              THEN /\ pc' = "running"
                   /\ UNCHANGED <<final_times, asked, returned>>
              ELSE /\ final_times' = ft
                   /\ IF TimerAsks(ft)
                      THEN pc' = "confirm" /\ asked' = asked + 1 /\ returned' = returned
                      ELSE pc' = "done" /\ asked' = asked /\ returned' = None
    /\ UNCHANGED <<now, frontend, indexVars, configVars, answer, comparison, storeVars, sessionVars, compareVars,
                   pedalVars>>

\* click.confirm of Timer.time is answered
TimerConfirm(yes) ==
    /\ pc = "confirm"
    /\ answer' = Some(yes)
    /\ returned' = IF yes THEN Some(final_times) ELSE None
    /\ pc' = "done"
    /\ UNCHANGED <<now, frontend, indexVars, configVars, unix_times, dispatched, report, final_times, asked,
                   comparison, storeVars, sessionVars, compareVars, pedalVars>>

\* Ctrl-C while Timer.time waits for a key event or for the answer to
\* click.confirm: nothing in Timer.time catches KeyboardInterrupt or click.Abort
TimerInterrupt ==
    /\ pc \in {"running", "confirm"}
    /\ pc' = "raised"
    /\ UNCHANGED <<now, frontend, indexVars, configVars, unix_times, dispatched, report, final_times, asked, answer,
                   returned, comparison, storeVars, sessionVars, compareVars, pedalVars>>

\* time passes
Tick ==
    /\ now < MaxClock
    /\ now' = now + 1
    /\ UNCHANGED <<frontend, indexVars, configVars, timerVars, storeVars, sessionVars, compareVars, pedalVars>>

---------------------------------------------------------------------------
(* core/RockBandPedalTimer.py: a Timer driven by the chunks of an audio     *)
(* stream. A chunk is taken by what _process_audio tests of it: whether its *)
(* minimum is below the threshold.                                          *)

PedalInit ==
    /\ _started = FALSE
    /\ _extreme_on_previous = FALSE
    /\ pedal_pc = "idle"
    /\ chunk = None

\* RockBandPedalTimer._on_press: the first press restarts the timer, every
\* later one completes a segment; complete is what it returns
_on_press(started, ut, t) ==
    IF started
    THEN LET segment_index == Len(ut) - 1
             added == _add_new_segment(ut, segment_index, FALSE, t)
         IN  [ started |-> started, unix_times |-> added.unix_times,
               report |-> added.report,
               complete |-> ~_print_next_segment_info(added.unix_times) ]
    ELSE [ started |-> TRUE, unix_times |-> restart(t), report |-> None,
           complete |-> FALSE ]

\* RockBandPedalTimer._time up to its loop: the stream is opened and started
PedalListen ==
    /\ frontend = "pedal"
    /\ pedal_pc = "idle"
    /\ pedal_pc' = "listening"
    /\ UNCHANGED <<now, frontend, indexVars, configVars, timerVars, _started, _extreme_on_previous, chunk,
                   storeVars, sessionVars, compareVars>>

\* _process_audio calling _on_press on every chunk below the threshold
_process_audio_EveryCrossing(crosses, extreme_on_previous) ==
    [press |-> crosses, _extreme_on_previous |-> crosses]

\* RockBandPedalTimer._process_audio, up to the call of _on_press: whether the
\* chunk, with a sample below the threshold or not, is a press, and the new
\* value of _extreme_on_previous
_process_audio(crosses, extreme_on_previous) ==
    IF crosses
    THEN [press |-> ~extreme_on_previous, _extreme_on_previous |-> TRUE]
    ELSE [press |-> FALSE, _extreme_on_previous |-> FALSE]

\* RockBandPedalTimer._process_audio on one chunk; with the flag paComplete the
\* stream is no longer active and _time closes it and returns
PedalChunk(crosses) ==
    /\ pedal_pc = "listening"
    /\ chunk' = Some(crosses)
    /\ LET processed == _process_audio(crosses, _extreme_on_previous)
           press == processed.press
           pressed == _on_press(_started, unix_times, now)
       IN  /\ _extreme_on_previous' = processed._extreme_on_previous
           /\ IF press
              THEN /\ _started' = pressed.started
                   /\ unix_times' = pressed.unix_times
                   /\ report' = IF pressed.report = None THEN report ELSE pressed.report
                   /\ pedal_pc' = IF pressed.complete THEN "closed" ELSE "listening"
              ELSE UNCHANGED <<_started, unix_times, report, pedal_pc>>
    /\ UNCHANGED <<now, frontend, indexVars, configVars, pc, dispatched, final_times, asked, answer, returned,
                   comparison, storeVars, sessionVars, compareVars>>

\* Ctrl-C while _time sleeps in its loop: KeyboardInterrupt is caught, the
\* stream closed and _time returns
PedalInterrupt ==
    /\ pedal_pc = "listening"
    /\ pedal_pc' = "closed"
    /\ UNCHANGED <<now, frontend, indexVars, configVars, timerVars, _started, _extreme_on_previous, chunk,
                   storeVars, sessionVars, compareVars>>

---------------------------------------------------------------------------
(* core/TimeSet.py: the store. A row of TimeSet.times is its date and the *)
(* standalone times of its segments.                                       *)

\* TimeSet.__len__ and TimeSet.__bool__
StoreLen(tms) == Len(tms)
StoreBool(tms) == StoreLen(tms) > 0

\* TimeSet.values: one vector of standalone times per run
Values(tms) == [r \in 1..Len(tms) |-> tms[r].segs]

\* np.cumsum of one vector: the running sum, accumulated left to right
RECURSIVE Cumsum(_)
Cumsum(v) ==
    IF Len(v) = 0 THEN <<>>
    ELSE IF Len(v) = 1 THEN <<v[1]>>
    ELSE LET before == Cumsum(Pop(v))
         IN  Append(before, Add(before[Len(before)], v[Len(v)]))

\* cumulative_times summing down the runs (axis=0) instead of along the segments
cumulative_times_Axis0(tms) ==
    [r \in 1..Len(tms) |->
        [date |-> tms[r].date,
         segs |-> [c \in 1..NumSegments |->
                     Cumsum([q \in 1..Len(tms) |-> tms[q].segs[c]])[r]]]]

\* TimeSet.cumulative_times: the dates, and np.cumsum(values, axis=1), built
\* row by row
RECURSIVE CumulativeUpTo(_, _)
CumulativeUpTo(tms, n) ==
    IF n = 0 THEN <<>>
    ELSE Append(CumulativeUpTo(tms, n - 1),
                [date |-> tms[n].date, segs |-> Cumsum(Values(tms)[n])])
cumulative_times(tms) == CumulativeUpTo(tms, Len(tms))

\* add_row that puts the new row in twice
add_row_Twice(tms, date, segment_times) ==
    LET row == [date |-> date, segs |-> SubSeq(segment_times, 1, NumSegments)]
    IN  IF Len(segment_times) < NumSegments
        THEN [times |-> tms, raised |-> TRUE]
        ELSE [times |-> Append(Append(tms, row), row), raised |-> FALSE]

\* TimeSet.add_row: one row more, filled column by column from segment_times;
\* a vector with too few entries raises IndexError and one with too many has
\* its tail ignored
add_row(tms, date, segment_times) ==
    IF Len(segment_times) < NumSegments
    THEN [times |-> tms, raised |-> TRUE]
    ELSE [times |-> Append(tms, [date |-> date,
                                 segs |-> SubSeq(segment_times, 1, NumSegments)]),
          raised |-> FALSE]

\* TimeSet.segments: the names of the segment columns, here their positions
Segments == [i \in 1..NumSegments |-> i]

\* TimeSet.__init__: the object holding the rows, the segment names and min_best
TimeSet(tms, mb) == [times |-> tms, segments |-> Segments, min_best |-> mb]

\* DataFrame.shape of TimeSet.times: the runs, and the date and segment columns
Shape(self) == <<Len(self.times), 1 + Len(self.segments)>>

\* one element of (a == b) on two arrays of floats: False when either is NaN
ElementEqual(a, b) == a = b /\ ~IsNaN(a) /\ ~IsNaN(b)

\* np.all over one row of (self.times.values == other.times.values): the date
\* and every segment time
RowEqual(a, b) ==
    /\ a.date = b.date
    /\ \A c \in 1..Len(a.segs) : ElementEqual(a.segs[c], b.segs[c])

\* TimeSet.__eq__
__eq__(self, other) ==
    IF self.min_best # other.min_best THEN FALSE
    ELSE IF self.segments # other.segments THEN FALSE
    ELSE IF Shape(self) # Shape(other) THEN FALSE
    ELSE \A r \in 1..Len(self.times) : RowEqual(self.times[r], other.times[r])

\* TimeSet.copy
copy(self) == TimeSet(self.times, self.min_best)

\* the null of a parquet column
Null == "null"

\* one column of the table, the first n rows
RECURSIVE ParquetColumn(_, _, _)
ParquetColumn(tms, c, n) ==
    IF n = 0 THEN <<>>
    ELSE Append(ParquetColumn(tms, c, n - 1),
                IF IsNaN(tms[n].segs[c]) THEN Null ELSE tms[n].segs[c])

RECURSIVE DateColumn(_, _)
DateColumn(tms, n) ==
    IF n = 0 THEN <<>> ELSE Append(DateColumn(tms, n - 1), tms[n].date)

\* DataFrame.to_parquet in TimeSet.save: the file holds the table column by
\* column, the date column and one column of doubles per segment in which a
\* missing time is a null; min_best is not written
to_parquet(tms) ==
    [date |-> DateColumn(tms, Len(tms)),
     columns |-> [c \in 1..NumSegments |-> ParquetColumn(tms, c, Len(tms))]]

\* pd.read_parquet reading a null as the number 0
read_parquet_NullAsZero(file) ==
    [r \in 1..Len(file.date) |->
        [date |-> file.date[r],
         segs |-> [c \in 1..NumSegments |->
                      IF file.columns[c][r] = Null THEN Num(0) ELSE file.columns[c][r]]]]

\* pd.read_parquet in TimeSet.load: the rows of the table, a null read as NaN
read_parquet(file) ==
    [r \in 1..Len(file.date) |->
        [date |-> file.date[r],
         segs |-> [c \in 1..NumSegments |->
                      IF file.columns[c][r] = Null THEN NaN ELSE file.columns[c][r]]]]

---------------------------------------------------------------------------
(* core/TimeSet.py: the reductions over the runs of a store. *)

\* the dtype of the segment columns: object once add_row has built a row
\* (np.ndarray(..., dtype=object)), float64 once read back from a parquet file
DTypes == {"object", "float64"}

\* one column of a frame: the values of segment c, run by run
RECURSIVE ColumnUpTo(_, _, _)
ColumnUpTo(frame, c, n) ==
    IF n = 0 THEN <<>> ELSE Append(ColumnUpTo(frame, c, n - 1), frame[n].segs[c])
Column(frame, c) == ColumnUpTo(frame, c, Len(frame))

\* the values of a column that are not missing
Present(col) == {col[r] : r \in {q \in 1..Len(col) : ~IsNaN(col[q])}}

\* the smallest (largest) of the values of col[1..n] that are not missing, NaN
\* when there is none
RECURSIVE NanExtreme(_, _, _)
NanExtreme(col, n, want_min) ==
    IF n = 0 THEN NaN
    ELSE LET before == NanExtreme(col, n - 1, want_min)
         IN  IF IsNaN(col[n]) THEN before
             ELSE IF IsNaN(before) THEN col[n]
             ELSE IF want_min
             THEN IF Less(col[n], before) THEN col[n] ELSE before
             ELSE IF Less(before, col[n]) THEN col[n] ELSE before

\* Series.min(skipna=True) and Series.max(skipna=True): NaN for a column with
\* nothing but missing values
NanMin(col) == NanExtreme(col, Len(col), TRUE)
NanMax(col) == NanExtreme(col, Len(col), FALSE)

\* the sum of the values of col[1..n] that are not missing
RECURSIVE NanSum(_, _)
NanSum(col, n) ==
    IF n = 0 THEN Num(0)
    ELSE IF IsNaN(col[n]) THEN NanSum(col, n - 1)
    ELSE Add(NanSum(col, n - 1), col[n])

\* Series.mean(skipna=True)
NanMean(col) ==
    IF Present(col) = {} THEN NaN
    ELSE Div(NanSum(col, Len(col)),
             Cardinality({r \in 1..Len(col) : ~IsNaN(col[r])}))

\* _get_extreme_times that takes the minimum whatever min_best says
_get_extreme_times_AlwaysMin(frame, mb, best) ==
    [c \in 1..NumSegments |-> NanMin(Column(frame, c))]

\* TimeSet._get_extreme_times
_get_extreme_times(frame, mb, best) ==
    LET should_do_min == (mb = best)
    IN  [c \in 1..NumSegments |->
            IF should_do_min THEN NanMin(Column(frame, c)) ELSE NanMax(Column(frame, c))]

\* TimeSet._get_average_times
_get_average_times(frame) == [c \in 1..NumSegments |-> NanMean(Column(frame, c))]

\* TimeSet.best_cumulative_times, worst_cumulative_times, average_cumulative_times
best_cumulative_times(tms, mb) == _get_extreme_times(cumulative_times(tms), mb, TRUE)
worst_cumulative_times(tms, mb) == _get_extreme_times(cumulative_times(tms), mb, FALSE)
average_cumulative_times(tms) == _get_average_times(cumulative_times(tms))

\* TimeSet.best_times, worst_times, average_times
best_times(tms, mb) == _get_extreme_times(tms, mb, TRUE)
worst_times(tms, mb) == _get_extreme_times(tms, mb, FALSE)
average_times(tms) == _get_average_times(tms)

\* np.argmin / np.argmax of an object array: the scan keeps the first element
\* and replaces it only by one that compares smaller (larger); no comparison
\* with NaN is true.  The 1-based position after v[1..n].
RECURSIVE ObjectArg(_, _, _)
ObjectArg(v, n, want_min) ==
    IF n = 1 THEN 1
    ELSE LET kept == ObjectArg(v, n - 1, want_min)
         IN  IF want_min
             THEN IF Less(v[n], v[kept]) THEN n ELSE kept
             ELSE IF Less(v[kept], v[n]) THEN n ELSE kept

\* np.argmin / np.argmax of a float64 array: the first NaN if there is one,
\* else the first smallest (largest) element.  The 1-based position.
FloatArg(v, want_min) ==
    IF AnyNaN(v)
    THEN CHOOSE i \in 1..Len(v) : IsNaN(v[i]) /\ \A j \in 1..(i - 1) : ~IsNaN(v[j])
    ELSE ObjectArg(v, Len(v), want_min)

\* np.argmin(v) / np.argmax(v) as a 0-based index; -1 stands for the ValueError
\* of an empty array
ArgExtreme(v, dt, want_min) ==
    IF Len(v) = 0 THEN -1
    ELSE IF dt = "float64" THEN FloatArg(v, want_min) - 1
    ELSE ObjectArg(v, Len(v), want_min) - 1

\* TimeSet.extreme_run_index
extreme_run_index(tms, mb, dt, best) ==
    LET final_times_ == Column(cumulative_times(tms), NumSegments)
        should_do_min == (mb = best)
    IN  ArgExtreme(final_times_, dt, should_do_min)

\* TimeSet.best_run_index and TimeSet.worst_run_index
best_run_index(tms, mb, dt) == extreme_run_index(tms, mb, dt, TRUE)
worst_run_index(tms, mb, dt) == extreme_run_index(tms, mb, dt, FALSE)

---------------------------------------------------------------------------
(* core/CompareStyle.py and the baselines of core/TimeSet.py. A CompareTime *)
(* is None or Some(the vector); a pair of them is <<standalone, cumulative>>. *)

\* the members of the enum CompareStyle
CompareStyle ==
    {"NONE", "BEST_RUN", "BEST_SEGMENTS", "WORST_RUN", "WORST_SEGMENTS",
     "LAST_RUN", "AVERAGE_SEGMENTS", "BALANCED_BEST"}

\* (CompareTime(None), CompareTime(None))
NullCompareTimes == <<None, None>>

\* TimeSet._make_compare_times_from_segment_times
_make_compare_times_from_segment_times(v) == <<Some(v), Some(Cumsum(v))>>

\* TimeSet._make_compare_times_from_run; which is a 0-based index
_make_compare_times_from_run(tms, which) ==
    _make_compare_times_from_segment_times(Values(tms)[which + 1])

\* np.sum of a vector: NaN as soon as one entry is NaN
RECURSIVE NpSum(_, _)
NpSum(v, n) == IF n = 0 THEN Num(0) ELSE Add(NpSum(v, n - 1), v[n])

\* np.sum over the rows of a 2D array, the first n rows
RECURSIVE NpSumRows(_, _)
NpSumRows(rows, n) ==
    IF n = 0 THEN Num(0)
    ELSE Add(NpSumRows(rows, n - 1), NpSum(rows[n], Len(rows[n])))

\* TimeSet.total_time_spent
total_time_spent(tms) == NpSumRows(Values(tms), Len(tms))

\* _make_balanced_best_compare_times that adds the whole time save to every segment
_make_balanced_best_compare_times_Undivided(tms, mb, dt) ==
    LET best_run_times == Values(tms)[best_run_index(tms, mb, dt) + 1]
        best_segment_times == best_times(tms, mb)
        time_saves == [i \in 1..NumSegments |->
                          Sub(best_run_times[i], best_segment_times[i])]
        balanced_times == [i \in 1..NumSegments |->
                              Add(best_segment_times[i], NpSum(time_saves, NumSegments))]
    IN  _make_compare_times_from_segment_times(balanced_times)

\* TimeSet._make_balanced_best_compare_times
_make_balanced_best_compare_times(tms, mb, dt) ==
    LET best_run_times == Values(tms)[best_run_index(tms, mb, dt) + 1]
        best_segment_times == best_times(tms, mb)
        time_saves == [i \in 1..NumSegments |->
                          Sub(best_run_times[i], best_segment_times[i])]
        balanced_time_save_per_segment == Div(NpSum(time_saves, NumSegments), NumSegments)
        balanced_times == [i \in 1..NumSegments |->
                              Add(best_segment_times[i], balanced_time_save_per_segment)]
    IN  _make_compare_times_from_segment_times(balanced_times)

\* make_compare_times without the branch of AVERAGE_SEGMENTS
make_compare_times_NoAverage(tms, mb, dt, compare_style) ==
    IF ~StoreBool(tms) THEN NullCompareTimes
    ELSE IF compare_style = "BEST_RUN"
    THEN _make_compare_times_from_run(tms, best_run_index(tms, mb, dt))
    ELSE IF compare_style = "WORST_RUN"
    THEN _make_compare_times_from_run(tms, worst_run_index(tms, mb, dt))
    ELSE IF compare_style = "LAST_RUN"
    THEN _make_compare_times_from_run(tms, StoreLen(tms) - 1)
    ELSE IF compare_style = "BEST_SEGMENTS"
    THEN _make_compare_times_from_segment_times(best_times(tms, mb))
    ELSE IF compare_style = "WORST_SEGMENTS"
    THEN _make_compare_times_from_segment_times(worst_times(tms, mb))
    ELSE IF compare_style = "BALANCED_BEST"
    THEN _make_balanced_best_compare_times(tms, mb, dt)
    ELSE NullCompareTimes

\* TimeSet.make_compare_times
make_compare_times(tms, mb, dt, compare_style) ==
    IF ~StoreBool(tms) THEN NullCompareTimes
    ELSE IF compare_style = "BEST_RUN"
    THEN _make_compare_times_from_run(tms, best_run_index(tms, mb, dt))
    ELSE IF compare_style = "WORST_RUN"
    THEN _make_compare_times_from_run(tms, worst_run_index(tms, mb, dt))
    ELSE IF compare_style = "LAST_RUN"
    THEN _make_compare_times_from_run(tms, StoreLen(tms) - 1)
    ELSE IF compare_style = "BEST_SEGMENTS"
    THEN _make_compare_times_from_segment_times(best_times(tms, mb))
    ELSE IF compare_style = "AVERAGE_SEGMENTS"
    THEN _make_compare_times_from_segment_times(average_times(tms))
    ELSE IF compare_style = "WORST_SEGMENTS"
    THEN _make_compare_times_from_segment_times(worst_times(tms, mb))
    ELSE IF compare_style = "BALANCED_BEST"
    THEN _make_balanced_best_compare_times(tms, mb, dt)
    ELSE NullCompareTimes

\* best_compare_times whose cumulative baseline is the running sum of the best
\* standalone times
best_compare_times_SumOfBest(tms, mb) ==
    IF StoreBool(tms)
    THEN <<Some(best_times(tms, mb)), Some(Cumsum(best_times(tms, mb)))>>
    ELSE NullCompareTimes

\* TimeSet.best_compare_times
best_compare_times(tms, mb) ==
    IF StoreBool(tms)
    THEN <<Some(best_times(tms, mb)), Some(best_cumulative_times(tms, mb))>>
    ELSE NullCompareTimes

\* ComparisonSet(current_segments, current_cumulatives, best_segments,
\* best_cumulatives, min_best)
ComparisonSet(current_segments, current_cumulatives, best_segments, best_cumulatives, mb) ==
    [ current_segments    |-> current_segments,
      current_cumulatives |-> current_cumulatives,
      best_segments       |-> best_segments,
      best_cumulatives    |-> best_cumulatives,
      min_best            |-> mb ]

\* make_comparison_set whose best-ever baselines are those of the live style
make_comparison_set_BestFollowsStyle(tms, mb, dt, compare_style) ==
    LET current == make_compare_times(tms, mb, dt, compare_style)
    IN  ComparisonSet(current[1], current[2], current[1], current[2], mb)

\* TimeSet.make_comparison_set
make_comparison_set(tms, mb, dt, compare_style) ==
    LET current == make_compare_times(tms, mb, dt, compare_style)
        best == best_compare_times(tms, mb)
    IN  ComparisonSet(current[1], current[2], best[1], best[2], mb)

---------------------------------------------------------------------------
(* core/TimeSet.py: TimeSet.time, the prompt-driven session. *)

\* what the user can type at the prompt of a segment
Inputs == {"", "abort", "ABORT", "skip"}

\* str.lower on Inputs
Lower(text) == IF text = "ABORT" THEN "abort" ELSE text

\* np.diff
Diff(ut) == [i \in 1..(Len(ut) - 1) |-> Sub(ut[i + 1], ut[i])]

\* the head of TimeSet._time_loop_iteration: FALSE when every segment is timed
\* and the iteration returns False before it prompts
ReachesPrompt(ut) == (Len(ut) - 1) # NumSegments

\* _process_raw_times without the test of an empty store
_process_raw_times_NoFirstRunCheck(tms, ut) ==
    LET new_times == Diff(ut)
        num_nans_to_concatenate == NumSegments - Len(new_times)
        padded == new_times \o [i \in 1..num_nans_to_concatenate |-> NaN]
    IN  IF Len(new_times) > 0
        THEN IF num_nans_to_concatenate > 0
             THEN [new_times |-> padded, asks |-> TRUE]
             ELSE [new_times |-> new_times, asks |-> TRUE]
        ELSE [new_times |-> new_times, asks |-> FALSE]

\* TimeSet._process_raw_times up to its click.confirm: the vector it would add
\* and whether it gets as far as asking
_process_raw_times(tms, ut) ==
    LET new_times == Diff(ut)
        num_nans_to_concatenate == NumSegments - Len(new_times)
        padded == new_times \o [i \in 1..num_nans_to_concatenate |-> NaN]
    IN  IF Len(new_times) > 0
        THEN IF num_nans_to_concatenate > 0
             THEN IF ~StoreBool(tms)
                  THEN [new_times |-> new_times, asks |-> FALSE]
                  ELSE [new_times |-> padded, asks |-> TRUE]
             ELSE [new_times |-> new_times, asks |-> TRUE]
        ELSE [new_times |-> new_times, asks |-> FALSE]

\* the style sessions are started with: the default of TimeSet.time
SessionStyles == {"BEST_RUN"}

SessionInit ==
    /\ ts_pc = "idle"
    /\ ts_date = 0
    /\ ts_unix_times = <<>>
    /\ ts_report = None
    /\ ts_new_times = <<>>
    /\ ts_asked = 0
    /\ ts_answer = None
    /\ ts_comparison = None

\* TimeSet.time(compare_style) is called: the date is taken, the ComparisonSet
\* made and the start prompt shown
TSBegin(compare_style) ==
    /\ frontend = "prompt"
    /\ ts_pc \in {"idle", "done", "raised"}
    /\ ts_pc' = "start"
    /\ ts_date' = now
    /\ ts_comparison' = Some(make_comparison_set(times, min_best, dtype, compare_style))
    /\ ts_unix_times' = <<>>
    /\ ts_report' = None
    /\ ts_new_times' = <<>>
    /\ ts_asked' = 0
    /\ ts_answer' = None
    /\ UNCHANGED <<now, frontend, indexVars, configVars, timerVars, storeVars, compareVars, pedalVars>>

\* the loop of TimeSet.time has ended: _process_raw_times up to its return or
\* its click.confirm
TSFinish(ut) ==
    LET raw == _process_raw_times(times, ut)
    IN  /\ ts_new_times' = raw.new_times
        /\ IF raw.asks
           THEN ts_pc' = "confirm" /\ ts_asked' = ts_asked + 1
           ELSE ts_pc' = "done" /\ ts_asked' = ts_asked

\* the loop of TimeSet.time goes into its next iteration with the list ut
TSLoop(ut) ==
    /\ ts_unix_times' = ut
    /\ IF ReachesPrompt(ut)
       THEN ts_pc' = "prompt" /\ UNCHANGED <<ts_new_times, ts_asked>>
       ELSE TSFinish(ut)

\* the start prompt is answered: the start time is taken and the loop entered
TSStart ==
    /\ ts_pc = "start"
    /\ TSLoop(<<Num(now)>>)
    /\ UNCHANGED <<now, frontend, indexVars, configVars, timerVars, storeVars, ts_date, ts_report, ts_answer, ts_comparison, compareVars, pedalVars>>

\* Ctrl-C at the start prompt: click.Abort leaves TimeSet.time
TSStartInterrupt ==
    /\ ts_pc = "start"
    /\ ts_pc' = "raised"
    /\ UNCHANGED <<now, frontend, indexVars, configVars, timerVars, storeVars, ts_date, ts_unix_times, ts_report,
                   ts_new_times, ts_asked, ts_answer, ts_comparison, compareVars, pedalVars>>

\* a line is entered at the prompt of a segment
TSInput(text) ==
    /\ ts_pc = "prompt"
    /\ IF Lower(text) = "abort"
       THEN /\ TSFinish(ts_unix_times)
            /\ UNCHANGED <<ts_unix_times, ts_report>>
       ELSE LET appended == Append(ts_unix_times, Num(now))
            IN  /\ ts_report' = Some(SegmentReport(appended, Len(ts_unix_times) - 1))
                /\ TSLoop(appended)
    /\ UNCHANGED <<now, frontend, indexVars, configVars, timerVars, storeVars, ts_date, ts_answer, ts_comparison, compareVars, pedalVars>>

\* the handler of Ctrl-C that raises whatever the list holds
InterruptUndoes_Never(ut) == FALSE

\* the test `if unix_times:` that follows unix_times.pop() in the handler of
\* Ctrl-C: whether the interrupt is an undo
InterruptUndoes(ut) == Pop(ut) # <<>>

\* Ctrl-C at the prompt of a segment: the last timestamp is popped, and with
\* none left KeyboardInterrupt leaves TimeSet.time
TSInterrupt ==
    /\ ts_pc = "prompt"
    /\ IF InterruptUndoes(ts_unix_times)
       THEN TSLoop(Pop(ts_unix_times))
       ELSE /\ ts_unix_times' = Pop(ts_unix_times)
            /\ ts_pc' = "raised"
            /\ UNCHANGED <<ts_new_times, ts_asked>>
    /\ UNCHANGED <<now, frontend, indexVars, configVars, timerVars, storeVars, ts_date, ts_report, ts_answer, ts_comparison, compareVars, pedalVars>>

\* click.confirm of _process_raw_times is answered
TSConfirm(yes) ==
    /\ ts_pc = "confirm"
    /\ StoreLen(times) < MaxRuns \/ ~yes
    /\ ts_answer' = Some(yes)
    /\ times' = IF yes THEN add_row(times, ts_date, ts_new_times).times ELSE times
    /\ dtype' = IF yes THEN "object" ELSE dtype
    /\ ts_pc' = IF yes /\ add_row(times, ts_date, ts_new_times).raised
               THEN "raised" ELSE "done"
    /\ UNCHANGED <<now, frontend, indexVars, configVars, timerVars, min_best, ts_date, ts_unix_times, ts_report,
                   ts_new_times, ts_asked, ts_comparison, compareVars, pedalVars>>

\* Ctrl-C at click.confirm: click.Abort leaves TimeSet.time
TSConfirmInterrupt ==
    /\ ts_pc = "confirm"
    /\ ts_pc' = "raised"
    /\ UNCHANGED <<now, frontend, indexVars, configVars, timerVars, storeVars, ts_date, ts_unix_times, ts_report,
                   ts_new_times, ts_asked, ts_answer, ts_comparison, compareVars, pedalVars>>

---------------------------------------------------------------------------
(* core/CompareTime.py *)

\* COLOR_DICT
COLOR_DICT == [red |-> 31, yellow |-> 33, green |-> 32, white |-> 37]

\* CompareResult(discrete, continuous)
CompareResult(discrete, continuous) ==
    [discrete |-> discrete, continuous |-> continuous]

\* compare that takes a time equal to the baseline's for better
compare_TieIsBetter(data, segment_index, main_time, min_better) ==
    IF data = None
    THEN CompareResult("EQUAL", NaN)
    ELSE LET difference == Sub(main_time, data[1][segment_index + 1])
         IN  IF IsNaN(difference) THEN CompareResult("EQUAL", NaN)
             ELSE IF Val(difference) = 0 \/ (Val(difference) < 0) = min_better
             THEN CompareResult("BETTER", difference)
             ELSE CompareResult("WORSE", difference)

\* compare that takes smaller for better whatever min_better says
compare_IgnoresMinBetter(data, segment_index, main_time, min_better) ==
    IF data = None
    THEN CompareResult("EQUAL", NaN)
    ELSE LET difference == Sub(main_time, data[1][segment_index + 1])
         IN  IF IsNaN(difference) THEN CompareResult("EQUAL", NaN)
             ELSE IF Val(difference) = 0 THEN CompareResult("EQUAL", difference)
             ELSE IF Val(difference) < 0
             THEN CompareResult("BETTER", difference)
             ELSE CompareResult("WORSE", difference)

\* CompareTime.compare; data is None or Some(the array)
compare(data, segment_index, main_time, min_better) ==
    IF data = None
    THEN CompareResult("EQUAL", NaN)
    ELSE LET difference == Sub(main_time, data[1][segment_index + 1])
         IN  IF IsNaN(difference) THEN CompareResult("EQUAL", NaN)
             ELSE IF Val(difference) = 0 THEN CompareResult("EQUAL", difference)
             ELSE IF (Val(difference) < 0) = min_better
             THEN CompareResult("BETTER", difference)
             ELSE CompareResult("WORSE", difference)

\* comparison_color that looks at the current comparison first
comparison_color_CurrentFirst(current, best) ==
    IF current.discrete = "BETTER" THEN "green"
    ELSE IF current.discrete = "WORSE" THEN "red"
    ELSE IF best.discrete = "BETTER" THEN "yellow"
    ELSE "white"

\* comparison_color
comparison_color(current, best) ==
    IF best.discrete = "BETTER" THEN "yellow"
    ELSE IF current.discrete = "BETTER" THEN "green"
    ELSE IF current.discrete = "WORSE" THEN "red"
    ELSE "white"

\* terminal_format: the string, by its parts
terminal_format(main_string, compare_string, color, bold) ==
    [ main_string |-> main_string, compare_string |-> compare_string,
      code |-> COLOR_DICT[color], bold |-> bold ]

\* compare_terminal_output: the time (???? for NaN) and the difference to the
\* current comparison (???? for NaN), in the colour of the two comparisons
compare_terminal_output(segment_index, time, current, best, min_best_) ==
    LET segment_compare_result == compare(current, segment_index, time, min_best_)
        best_segment_compare_result == compare(best, segment_index, time, min_best_)
        segment_color ==
            comparison_color(segment_compare_result, best_segment_compare_result)
    IN  terminal_format(time, segment_compare_result.continuous, segment_color, TRUE)

\* ComparisonSet.print_segment_terminal_output: the message, by its parts; the
\* cumulative part is there from the second segment on
print_segment_terminal_output(set, segment_index, standalone, cumulative) ==
    [ segment |->
          compare_terminal_output(segment_index, standalone, set.current_segments,
                                  set.best_segments, set.min_best),
      cumulative |->
          IF segment_index > 0
          THEN Some(compare_terminal_output(segment_index, cumulative,
                                            set.current_cumulatives,
                                            set.best_cumulatives, set.min_best))
          ELSE None ]

\* the floats given to compare, and the comparisons it is called on
Floats == {NaN} \cup {Num(x) : x \in 0..MaxTime}
CompareTimes == {None} \cup {Some(v) : v \in [1..NumSegments -> Floats]}

CompareIdle ==
    /\ cmp_in = None
    /\ cmp_out = None

\* a call of CompareTime.compare
CallCompare ==
    /\ cmp_in = None
    /\ \E data \in CompareTimes, segment_index \in 0..(NumSegments - 1),
          main_time \in Floats, min_better \in BOOLEAN :
           /\ cmp_in' = Some([ op |-> "compare", data |-> data,
                               segment_index |-> segment_index,
                               main_time |-> main_time, min_better |-> min_better ])
           /\ cmp_out' = Some(compare(data, segment_index, main_time, min_better))
    /\ UNCHANGED <<now, frontend, indexVars, configVars, timerVars, storeVars, sessionVars, pedalVars>>

\* a call of compare_terminal_output
CallCompareTerminalOutput ==
    /\ cmp_in = None
    /\ \E current \in CompareTimes, best \in CompareTimes,
          segment_index \in 0..(NumSegments - 1), time \in Floats, mb \in BOOLEAN :
           /\ cmp_in' = Some([ op |-> "compare_terminal_output", current |-> current,
                               best |-> best, segment_index |-> segment_index,
                               time |-> time, min_best |-> mb ])
           /\ cmp_out' = Some(compare_terminal_output(segment_index, time, current, best, mb))
    /\ UNCHANGED <<now, frontend, indexVars, configVars, timerVars, storeVars, sessionVars, pedalVars>>

---------------------------------------------------------------------------
(* The timing sessions: calls of Timer.time and of TimeSet.time, one at a  *)
(* time, from an empty store.                                              *)

---------------------------------------------------------------------------
(* core/TaskIndex.py: the index of the timed tasks, with the methods of    *)
(* TimedTask it calls. A string is the tuple of its characters.            *)

\* the strings given to the index as names, keys and aliases: names of one
\* character, two names that differ in a character that is not alphanumeric,
\* and a name with the special character
TaskStrings ==
    { <<"a">>, <<"b">>, <<"a", " ">>, <<"a", "_">>, <<"a", ",">> }

\* the sequences of at most MaxAliases strings: an aliases argument
AliasLists == UNION {[1..n -> TaskStrings] : n \in 0..MaxAliases}

SPECIAL_CHARACTERS == {","}
PathSep == "/"
AlphaNumeric == {"a", "b"}

\* TaskIndex.check_names raises ValueError for the name
HasSpecialCharacter(name) == \E i \in 1..Len(name) : name[i] \in SPECIAL_CHARACTERS

\* TaskIndex.is_valid_char
is_valid_char(char) == char \in AlphaNumeric \/ char = PathSep

\* the leaf directory new_timed_task makes of a name
LeafDirectory(name) ==
    [i \in 1..Len(name) |-> IF is_valid_char(name[i]) THEN name[i] ELSE "_"]

\* TimedTask.__init__
TimedTask(name, directory, aliases) ==
    [name |-> name, directory |-> directory, aliases |-> aliases]

\* a dictionary with the entry key: value set, and without the entry of key
DictSet(dict, key, value) ==
    [k \in DOMAIN dict \cup {key} |-> IF k = key THEN value ELSE dict[k]]
DictPop(dict, key) == [k \in DOMAIN dict \ {key} |-> dict[k]]
RECURSIVE DictPopAll(_, _)
DictPopAll(dict, keys) ==
    IF keys = {} THEN dict
    ELSE LET key == CHOOSE k \in keys : TRUE
         IN  DictPopAll(DictPop(dict, key), keys \ {key})
EmptyDict == <<>>

\* the index: TaskIndex.timed_tasks, TaskIndex.alias_dictionary and the
\* directories of the tasks under TaskIndex.data_directory
TaskIndex(tasks, dictionary, dirs) ==
    [timed_tasks |-> tasks, alias_dictionary |-> dictionary, directories |-> dirs]

\* what a method of the index leaves: the index and the exception raised
Outcome(self, raised) == [self |-> self, raised |-> raised]

\* TaskIndex.__getitem__: the task, or None for KeyError
GetItem(self, key) ==
    IF key \in DOMAIN self.alias_dictionary
       /\ self.alias_dictionary[key] \in DOMAIN self.timed_tasks
    THEN Some(self.timed_tasks[self.alias_dictionary[key]])
    ELSE None

\* add_alias that overwrites the entry of a string already in the dictionary
add_alias_Overwrites(self, key, new_alias) ==
    IF GetItem(self, key) = None THEN Outcome(self, "KeyError")
    ELSE IF HasSpecialCharacter(new_alias) THEN Outcome(self, "ValueError")
    ELSE LET timed_task == GetItem(self, key)[1]
         IN  IF new_alias = timed_task.name THEN Outcome(self, "ValueError")
             ELSE Outcome(
                      TaskIndex(
                          DictSet(self.timed_tasks, timed_task.name,
                                  TimedTask(timed_task.name, timed_task.directory,
                                            timed_task.aliases \cup {new_alias})),
                          DictSet(self.alias_dictionary, new_alias, timed_task.name),
                          self.directories),
                      "none")

\* TaskIndex.add_alias, with TimedTask.add_alias
add_alias(self, key, new_alias) ==
    IF GetItem(self, key) = None THEN Outcome(self, "KeyError")
    ELSE IF new_alias \in DOMAIN self.alias_dictionary THEN Outcome(self, "ValueError")
    ELSE IF HasSpecialCharacter(new_alias) THEN Outcome(self, "ValueError")
    ELSE LET timed_task == GetItem(self, key)[1]
         IN  IF new_alias = timed_task.name THEN Outcome(self, "ValueError")
             ELSE Outcome(
                      TaskIndex(
                          DictSet(self.timed_tasks, timed_task.name,
                                  TimedTask(timed_task.name, timed_task.directory,
                                            timed_task.aliases \cup {new_alias})),
                          DictSet(self.alias_dictionary, new_alias, timed_task.name),
                          self.directories),
                      "none")

\* the loop of TaskIndex.add_aliases from the i-th alias on: a ValueError of
\* add_alias is noted with the name the alias stands for, which is a KeyError
\* when the alias stands for nothing; any other exception ends the loop
RECURSIVE AddAliasesFrom(_, _, _, _, _)
AddAliasesFrom(self, key, aliases, i, failed) ==
    IF i > Len(aliases)
    THEN Outcome(self, IF failed THEN "ValueError" ELSE "none")
    ELSE LET added == add_alias(self, key, aliases[i])
         IN  IF added.raised = "none"
             THEN AddAliasesFrom(added.self, key, aliases, i + 1, failed)
             ELSE IF added.raised = "ValueError"
                     /\ aliases[i] \in DOMAIN self.alias_dictionary
             THEN AddAliasesFrom(self, key, aliases, i + 1, TRUE)
             ELSE Outcome(self, "KeyError")

\* TaskIndex.add_aliases
add_aliases(self, key, aliases) == AddAliasesFrom(self, key, aliases, 1, FALSE)

\* TaskIndex.new_timed_task(name, segments, aliases=aliases), aliases None or a
\* list; the segment names have no special character
new_timed_task(self, name, aliases) ==
    IF name \in DOMAIN self.alias_dictionary THEN Outcome(self, "ValueError")
    ELSE IF HasSpecialCharacter(name) THEN Outcome(self, "ValueError")
    ELSE IF LeafDirectory(name) \in self.directories
    THEN Outcome(self, "FileExistsError")
    ELSE LET directory == LeafDirectory(name)
             created == TaskIndex(
                            DictSet(self.timed_tasks, name, TimedTask(name, directory, {})),
                            DictSet(self.alias_dictionary, name, name),
                            self.directories \cup {directory})
         IN  IF aliases = None THEN Outcome(created, "none")
             ELSE add_aliases(created, name, aliases[1])

\* TaskIndex.remove_alias, with TimedTask.remove_alias
remove_alias(self, alias) ==
    IF alias \notin DOMAIN self.alias_dictionary THEN Outcome(self, "KeyError")
    ELSE LET name == self.alias_dictionary[alias]
         IN  IF alias = name THEN Outcome(self, "ValueError")
             ELSE IF name \notin DOMAIN self.timed_tasks
                     \/ alias \notin self.timed_tasks[name].aliases
             THEN Outcome(self, "KeyError")
             ELSE Outcome(
                      TaskIndex(
                          DictSet(self.timed_tasks, name,
                                  TimedTask(name, self.timed_tasks[name].directory,
                                            self.timed_tasks[name].aliases \ {alias})),
                          DictPop(self.alias_dictionary, alias),
                          self.directories),
                      "none")

\* the loop of TaskIndex.remove_aliases from the i-th alias on: a ValueError of
\* remove_alias is noted, a KeyError passed over
RECURSIVE RemoveAliasesFrom(_, _, _, _)
RemoveAliasesFrom(self, aliases, i, failed) ==
    IF i > Len(aliases)
    THEN Outcome(self, IF failed THEN "ValueError" ELSE "none")
    ELSE LET removed == remove_alias(self, aliases[i])
         IN  RemoveAliasesFrom(removed.self, aliases, i + 1,
                               failed \/ removed.raised = "ValueError")

\* TaskIndex.remove_aliases
remove_aliases(self, aliases) == RemoveAliasesFrom(self, aliases, 1, FALSE)

\* delete that leaves the aliases of the task in the dictionary
delete_KeepsAliases(self, name) ==
    IF GetItem(self, name) = None THEN Outcome(self, "KeyError")
    ELSE LET timed_task == GetItem(self, name)[1]
         IN  IF name # timed_task.name THEN Outcome(self, "ValueError")
             ELSE Outcome(
                      TaskIndex(DictPop(self.timed_tasks, name),
                                DictPop(self.alias_dictionary, timed_task.name),
                                self.directories \ {timed_task.directory}),
                      "none")

\* TaskIndex.delete, with TimedTask.delete: the directory of the task is
\* removed from the disk
delete(self, name) ==
    IF GetItem(self, name) = None THEN Outcome(self, "KeyError")
    ELSE LET timed_task == GetItem(self, name)[1]
         IN  IF name # timed_task.name THEN Outcome(self, "ValueError")
             ELSE IF ~(timed_task.aliases \subseteq DOMAIN self.alias_dictionary)
             THEN Outcome(
                      TaskIndex(self.timed_tasks,
                                DictPop(self.alias_dictionary, timed_task.name),
                                self.directories),
                      "KeyError")
             ELSE Outcome(
                      TaskIndex(DictPop(self.timed_tasks, name),
                                DictPopAll(DictPop(self.alias_dictionary, timed_task.name),
                                           timed_task.aliases),
                                self.directories \ {timed_task.directory}),
                      "none")

IndexInit ==
    /\ timed_tasks = EmptyDict
    /\ alias_dictionary = EmptyDict
    /\ directories = {}
    /\ index_called = "none"
    /\ index_raised = "none"

\* the index as the variables hold it
Index == TaskIndex(timed_tasks, alias_dictionary, directories)

\* a method of the index has run and left the outcome
IndexBecomes(outcome) ==
    /\ timed_tasks' = outcome.self.timed_tasks
    /\ alias_dictionary' = outcome.self.alias_dictionary
    /\ directories' = outcome.self.directories
    /\ index_raised' = outcome.raised
    /\ UNCHANGED <<now, frontend, configVars, timerVars, pedalVars, storeVars, sessionVars,
                   compareVars>>

\* the calls of the methods of the index
NewTimedTask(name, aliases) ==
    /\ Cardinality(DOMAIN timed_tasks) < MaxTasks
    /\ index_called' = "new_timed_task"
    /\ IndexBecomes(new_timed_task(Index, name, aliases))

AddAlias(key, new_alias) ==
    /\ index_called' = "add_alias"
    /\ IndexBecomes(add_alias(Index, key, new_alias))

AddAliases(key, aliases) ==
    /\ index_called' = "add_aliases"
    /\ IndexBecomes(add_aliases(Index, key, aliases))

RemoveAlias(alias) ==
    /\ index_called' = "remove_alias"
    /\ IndexBecomes(remove_alias(Index, alias))

RemoveAliases(aliases) ==
    /\ index_called' = "remove_aliases"
    /\ IndexBecomes(remove_aliases(Index, aliases))

Delete(name) ==
    /\ index_called' = "delete"
    /\ IndexBecomes(delete(Index, name))

---------------------------------------------------------------------------
(* core/Config.py: the global configuration, its values in memory and its  *)
(* yaml file. A string is the tuple of its characters.                     *)

\* the strings assigned to a variable of the configuration
ConfigStrings ==
    { <<"s">>, <<"a">>, <<"S", ",", "u">>, <<"e", "s", "c">>, <<"?">>,
      <<"f", "o", "o">>, <<"2">> }

\* the four lists of keys, and the variables assigned to: two of the lists, the
\* number of decimal places and "bogus", which is no variable of the configuration
KeyVariables == {"skip_keys", "abort_keys", "continue_keys", "undo_keys"}
AssignedVariables == {"skip_keys", "abort_keys", "num_decimal_places", "bogus"}

\* str.lower, one character
LowerChar(char) == IF char = "S" THEN "s" ELSE char

\* str.isalnum
Digits == {"1", "2"}
IsAlnum(string) ==
    /\ string # <<>>
    /\ \A i \in 1..Len(string) :
          string[i] \in {"a", "c", "e", "f", "n", "o", "p", "r", "s", "t", "u", "z"}
                            \cup Digits

\* the members of pynput's Key that the configuration uses
KeyboardKey == { <<"e", "s", "c">>, <<"e", "n", "t", "e", "r">>, <<"s", "p", "a", "c", "e">> }

\* string.split(","), the part of the string after position i being split with
\* the piece collected so far
RECURSIVE SplitFrom(_, _, _)
SplitFrom(string, i, piece) ==
    IF i > Len(string) THEN <<piece>>
    ELSE IF string[i] = "," THEN <<piece>> \o SplitFrom(string, i + 1, <<>>)
    ELSE SplitFrom(string, i + 1, Append(piece, string[i]))
Split(string) == SplitFrom(string, 1, <<>>)

\* KeyCode.from_char and Key[name]
KeyCodeFromChar(char) == [char |-> char]
KeyNamed(name) == [name |-> name]

\* the loop of _key_config_parser from the i-th string form on: None for
\* ValueError
RECURSIVE ParseKeysFrom(_, _, _)
ParseKeysFrom(string_forms, i, final) ==
    IF i > Len(string_forms) THEN Some(final)
    ELSE LET string_form == [j \in 1..Len(string_forms[i]) |-> LowerChar(string_forms[i][j])]
         IN  IF ~IsAlnum(string_form) THEN None
             ELSE IF Len(string_form) = 1
             THEN ParseKeysFrom(string_forms, i + 1,
                                Append(final, KeyCodeFromChar(string_form[1])))
             ELSE IF string_form \in KeyboardKey
             THEN ParseKeysFrom(string_forms, i + 1, Append(final, KeyNamed(string_form)))
             ELSE None

\* _key_config_parser
_key_config_parser(string) == ParseKeysFrom(Split(string), 1, <<>>)

\* _string_form_of_key
_string_form_of_key(key) == IF "name" \in DOMAIN key THEN key.name ELSE <<key.char>>

\* _key_config_stringifier: the string forms joined by ","
RECURSIVE _key_config_stringifier(_)
_key_config_stringifier(keys) ==
    IF keys = <<>> THEN <<>>
    ELSE IF Len(keys) = 1 THEN _string_form_of_key(keys[1])
    ELSE _string_form_of_key(keys[1]) \o <<",">> \o _key_config_stringifier(Tail(keys))

\* int of a string of one character: None for ValueError
ParseInt(string) ==
    IF Len(string) = 1 /\ string[1] \in Digits
    THEN Some(IF string[1] = "1" THEN 1 ELSE 2)
    ELSE None

\* DEFAULT_GLOBAL_CONFIG[key].parser(value) and .stringifier(value)
Parser(key, value) ==
    IF key = "num_decimal_places" THEN ParseInt(value)
    ELSE IF key = "data_directory" THEN Some(value)
    ELSE _key_config_parser(value)
Stringifier(key, value) ==
    IF key \in {"num_decimal_places", "data_directory"} THEN value
    ELSE _key_config_stringifier(value)

\* DEFAULT_GLOBAL_CONFIG: the defaults in string form, the data directory
\* written d
DEFAULT_GLOBAL_CONFIG ==
    [ data_directory     |-> <<"d">>,
      num_decimal_places |-> <<"1">>,
      skip_keys          |-> <<"s">>,
      abort_keys         |-> <<"e", "s", "c", ",", "a">>,
      continue_keys      |-> <<"e", "n", "t", "e", "r", ",", "s", "p", "a", "c", "e", ",", "c">>,
      undo_keys          |-> <<"u", ",", "z">> ]

\* the places of the keys in the four lists of keys
Bindings(values) ==
    UNION { {<<config_key, i>> : i \in 1..Len(values[config_key])} :
                config_key \in KeyVariables }

\* _GlobalConfig._validate_keyboard_config passes: no string form is that of
\* more than one key among those of the four lists
_validate_keyboard_config(values) ==
    \A binding \in Bindings(values) :
        Cardinality({ other \in Bindings(values) :
                         _string_form_of_key(values[other[1]][other[2]]) =
                             _string_form_of_key(values[binding[1]][binding[2]]) }) = 1

\* _GlobalConfig.validate passes
validate(values) ==
    /\ DOMAIN values = DOMAIN DEFAULT_GLOBAL_CONFIG
    /\ _validate_keyboard_config(values)

\* what _GlobalConfig.save writes to the yaml file
Dumped(values) == [key \in DOMAIN values |-> Stringifier(key, values[key])]

\* _GlobalConfig.__setitem__: _set, which parses the string and stores the
\* value, then save, which validates the values and writes the file
SetItem(values, file, key, value) ==
    IF key \notin DOMAIN DEFAULT_GLOBAL_CONFIG
    THEN [values |-> values, file |-> file, raised |-> "KeyError"]
    ELSE IF Parser(key, value) = None
    THEN [values |-> values, file |-> file, raised |-> "ValueError"]
    ELSE LET set == [values EXCEPT ![key] = Parser(key, value)[1]]
         IN  IF validate(set)
             THEN [values |-> set, file |-> Dumped(set), raised |-> "none"]
             ELSE [values |-> set, file |-> file, raised |-> "ValueError"]

\* _GlobalConfig.__init__ without a file: the defaults are set and saved
ConfigInit ==
    /\ config_values =
           [key \in DOMAIN DEFAULT_GLOBAL_CONFIG |->
               Parser(key, DEFAULT_GLOBAL_CONFIG[key])[1]]
    /\ config_file = Dumped(config_values)
    /\ config_raised = "none"

\* global_config[key] = value
ConfigSetItem(key, value) ==
    /\ LET done == SetItem(config_values, config_file, key, value)
       IN  /\ config_values' = done.values
           /\ config_file' = done.file
           /\ config_raised' = done.raised
    /\ UNCHANGED <<now, frontend, indexVars, timerVars, pedalVars, storeVars, sessionVars,
                   compareVars>>

---------------------------------------------------------------------------
(* The specifications. *)

\* the comparisons a Timer is constructed with: the one of an empty store and
\* the one of a store whose only run has every segment time 1
TimerBaseline == [i \in 1..TimerNumSegments |-> Num(1)]
TimerComparisons ==
    { ComparisonSet(None, None, None, None, TRUE),
      ComparisonSet(Some(TimerBaseline), Some(Cumsum(TimerBaseline)),
                    Some(TimerBaseline), Some(Cumsum(TimerBaseline)), TRUE) }

Init ==
    /\ now = 0
    /\ frontend \in {"timer", "pedal", "prompt"}
    /\ TimerInit
    /\ comparison \in IF frontend = "prompt"
                      THEN {ComparisonSet(None, None, None, None, TRUE)}
                      ELSE TimerComparisons
    /\ PedalInit
    /\ times = <<>>
    /\ min_best = TRUE
    /\ dtype = "object"
    /\ SessionInit
    /\ CompareIdle
    /\ IndexInit
    /\ ConfigInit

Next ==
    \/ Tick
    \/ TimerStart
    \/ \E key \in Keys : OnPress(key)
    \/ \E yes \in BOOLEAN : TimerConfirm(yes)
    \/ TimerInterrupt
    \/ PedalListen
    \/ \E crosses \in BOOLEAN : PedalChunk(crosses)
    \/ PedalInterrupt
    \/ \E compare_style \in SessionStyles : TSBegin(compare_style)
    \/ TSStart
    \/ TSStartInterrupt
    \/ \E text \in Inputs : TSInput(text)
    \/ TSInterrupt
    \/ \E yes \in BOOLEAN : TSConfirm(yes)
    \/ TSConfirmInterrupt

Spec == Init /\ [][Next]_vars

---------------------------------------------------------------------------
(* The store on its own: rows are appended to a store created empty. *)

\* the vectors of standalone times given to add_row
SegmentTimes == {NaN} \cup {Num(x) : x \in 1..MaxTime}
RunVectors == [1..NumSegments -> SegmentTimes]
\* the vectors a caller can hand to add_row: one value short, the right length,
\* one value long
AddRowVectors ==
    UNION {[1..n -> SegmentTimes] : n \in (NumSegments - 1)..(NumSegments + 1)}

StoreInit ==
    /\ now = 0
    /\ frontend = "prompt"
    /\ TimerInit
    /\ comparison = ComparisonSet(None, None, None, None, TRUE)
    /\ PedalInit
    /\ times = <<>>
    /\ min_best \in BOOLEAN
    /\ dtype = "object"
    /\ SessionInit
    /\ CompareIdle
    /\ IndexInit
    /\ ConfigInit

\* a call of add_row with the date of the call; the call that raises leaves
\* the store as it was, the date of the next row lies after the one appended
AddRow(segment_times) ==
    /\ StoreLen(times) < MaxRuns
    /\ LET result == add_row(times, now, segment_times)
       IN  /\ times' = result.times
           /\ dtype' = IF result.raised THEN dtype ELSE "object"
           /\ now' = IF result.raised THEN now ELSE now + 1
    /\ UNCHANGED <<frontend, indexVars, configVars, timerVars, min_best, sessionVars, compareVars, pedalVars>>

\* TimeSet.save followed by TimeSet.load(filename, min_best=mb): the store is
\* then the one made of the table read from the file, in float64 columns, with
\* the min_best given to load
Reload(mb) ==
    /\ times' = read_parquet(to_parquet(times))
    /\ dtype' = "float64"
    /\ min_best' = mb
    /\ UNCHANGED <<now, frontend, indexVars, configVars, timerVars, sessionVars, compareVars, pedalVars>>

NextStore ==
    \/ \E segment_times \in AddRowVectors : AddRow(segment_times)
    \/ \E mb \in BOOLEAN : Reload(mb)

SpecStore == StoreInit /\ [][NextStore]_vars

---------------------------------------------------------------------------
(* The comparisons on their own: one call of compare or of                 *)
(* compare_terminal_output, on any arguments.                              *)

CompareInit ==
    /\ Init
    /\ frontend = "prompt"

NextCompare ==
    \/ CallCompare
    \/ CallCompareTerminalOutput

SpecCompare == CompareInit /\ [][NextCompare]_vars

---------------------------------------------------------------------------
(* The index on its own: the methods of an index created on an empty data  *)
(* directory, on any arguments.                                            *)

IndexOnlyInit ==
    /\ StoreInit
    /\ min_best = TRUE

NextIndex ==
    \/ \E name \in TaskStrings, aliases \in {None} \cup {Some(l) : l \in AliasLists} :
           NewTimedTask(name, aliases)
    \/ \E key \in TaskStrings, new_alias \in TaskStrings : AddAlias(key, new_alias)
    \/ \E key \in TaskStrings, aliases \in AliasLists : AddAliases(key, aliases)
    \/ \E alias \in TaskStrings : RemoveAlias(alias)
    \/ \E aliases \in AliasLists : RemoveAliases(aliases)
    \/ \E name \in TaskStrings : Delete(name)

SpecIndex == IndexOnlyInit /\ [][NextIndex]_vars

---------------------------------------------------------------------------
(* The configuration on its own: assignments to the global configuration   *)
(* created without a file.                                                 *)

NextConfig ==
    \E key \in AssignedVariables, value \in ConfigStrings : ConfigSetItem(key, value)

SpecConfig == IndexOnlyInit /\ [][NextConfig]_vars

---------------------------------------------------------------------------
(* The properties checked. *)

\* C1 (SpecCompare): compare returns EQUAL with a NaN difference when the
\* baseline is None, the time is NaN or the baseline's entry is NaN; otherwise
\* the difference is time - baseline[segment_index], and the result is EQUAL
\* for 0, BETTER when (difference < 0) = min_better, and WORSE otherwise.
C1_Compare ==
    (cmp_in # None /\ cmp_in[1].op = "compare") =>
        LET a == cmp_in[1]
            out == cmp_out[1]
            missing == \/ a.data = None
                       \/ IsNaN(a.main_time)
                       \/ IsNaN(a.data[1][a.segment_index + 1])
        IN  IF missing
            THEN out.discrete = "EQUAL" /\ IsNaN(out.continuous)
            ELSE LET delta == Val(a.main_time) - Val(a.data[1][a.segment_index + 1])
                 IN  /\ out.continuous = Num(delta)
                     /\ out.discrete = IF delta = 0 THEN "EQUAL"
                                       ELSE IF (delta < 0) = a.min_better THEN "BETTER"
                                       ELSE "WORSE"

\* a larger time was compared with larger-is-better and came out BETTER
C1_Witness ==
    /\ cmp_in # None
    /\ cmp_in[1].op = "compare"
    /\ ~cmp_in[1].min_better
    /\ cmp_in[1].data # None
    /\ cmp_out[1].discrete = "BETTER"
    /\ Val(cmp_out[1].continuous) > 0

\* C2 (SpecCompare): the colour of a reported time is yellow exactly when its
\* comparison with the best-ever baseline is BETTER; otherwise it is green,
\* red or white as its comparison with the current baseline is BETTER, WORSE
\* or EQUAL.
C2_Colour ==
    (cmp_in # None /\ cmp_in[1].op = "compare_terminal_output") =>
        LET a == cmp_in[1]
            live == compare(a.current, a.segment_index, a.time, a.min_best).discrete
            best == compare(a.best, a.segment_index, a.time, a.min_best).discrete
            code == cmp_out[1].code
        IN  /\ (code = COLOR_DICT.yellow) <=> (best = "BETTER")
            /\ best # "BETTER" =>
                   code = IF live = "BETTER" THEN COLOR_DICT.green
                          ELSE IF live = "WORSE" THEN COLOR_DICT.red
                          ELSE COLOR_DICT.white

\* a time worse than the current baseline and better than the best-ever one
\* was reported in yellow
C2_Witness ==
    /\ cmp_in # None
    /\ cmp_in[1].op = "compare_terminal_output"
    /\ compare(cmp_in[1].current, cmp_in[1].segment_index, cmp_in[1].time,
               cmp_in[1].min_best).discrete = "WORSE"
    /\ compare(cmp_in[1].best, cmp_in[1].segment_index, cmp_in[1].time,
               cmp_in[1].min_best).discrete = "BETTER"
    /\ cmp_out[1].code = COLOR_DICT.yellow

\* the sum of the numbers v[1..i]
RECURSIVE SumOfFirst(_, _)
SumOfFirst(v, i) == IF i = 0 THEN 0 ELSE SumOfFirst(v, i - 1) + Val(v[i])

\* C3 (SpecStore): for every run of the store, cumulative_times[i] is the sum
\* of the standalone times 0..i when none of them is missing, and it is
\* missing as soon as one standalone time at a position j <= i is missing.
C3_Cumulative ==
    \A r \in 1..Len(times) : \A i \in 1..NumSegments :
        LET row == times[r].segs
            cum == cumulative_times(times)[r].segs
        IN  IF \E j \in 1..i : IsNaN(row[j])
            THEN IsNaN(cum[i])
            ELSE cum[i] = Num(SumOfFirst(row, i))

\* a store with a complete run and with a run whose first time is missing and
\* whose later time is not
C3_Witness ==
    /\ \E r \in 1..Len(times) : ~AnyNaN(times[r].segs)
    /\ \E r \in 1..Len(times) :
          /\ IsNaN(times[r].segs[1])
          /\ ~IsNaN(times[r].segs[NumSegments])
          /\ IsNaN(cumulative_times(times)[r].segs[NumSegments])

\* Timer.time has left its event loop
TimerEnded == pc \in {"confirm", "done"}

\* C4 (Spec): a continue key at Running(i) appends exactly one timestamp, now;
\* the loop goes on when i + 1 < N and stops exactly when N + 1 timestamps are
\* recorded; while the loop runs at most N timestamps are recorded.
C4_Complete ==
    [][ /\ \A key \in global_config.continue_keys :
              OnPress(key) =>
                  /\ unix_times' = Append(unix_times, Num(now))
                  /\ (pc' = "running") <=> (Len(unix_times) < TimerNumSegments)
                  /\ TimerEnded' <=> (Len(unix_times') = TimerNumSegments + 1)
        /\ (pc' = "running" => Len(unix_times') <= TimerNumSegments)
      ]_vars

\* the last segment was completed and the loop left with N + 1 timestamps
C4_Witness ==
    /\ dispatched = "continue"
    /\ pc = "confirm"
    /\ Len(unix_times) = TimerNumSegments + 1
    /\ ~AnyNaN(unix_times)

\* C5 as stated: after a skip of segment j the standalone time reported for j
\* and the cumulative time of j and of every later segment are NaN, in the
\* report of every later continue key and in the final vector.
C5_Original ==
    [][ /\ \A key \in global_config.skip_keys :
              OnPress(key) =>
                  IsNaN(report'[1].standalone) /\ IsNaN(report'[1].cumulative)
        /\ \A key \in global_config.continue_keys :
              (OnPress(key) /\ \E j \in 2..Len(unix_times) : IsNaN(unix_times[j])) =>
                  IsNaN(report'[1].cumulative)
        /\ TimerEnded' =>
              \A j \in 1..TimerNumSegments : \A k \in 1..TimerNumSegments :
                  (j < k /\ j + 1 <= Len(unix_times') /\ IsNaN(unix_times'[j + 1]))
                      => IsNaN(final_times'[k])
      ]_vars

\* C5 as amended (Spec): a skip of segment j reports a NaN standalone and a NaN
\* cumulative time for j; a later continue key reports the cumulative time
\* now - t[0], which is not NaN, and a NaN standalone time exactly when the
\* timestamp before it is that of a skip; the final vector is NaN exactly at
\* the skipped and the unrecorded segments.
C5_Skip ==
    [][ /\ \A key \in global_config.skip_keys :
              OnPress(key) =>
                  /\ report'[1].segment_index = Len(unix_times) - 1
                  /\ IsNaN(report'[1].standalone)
                  /\ IsNaN(report'[1].cumulative)
        /\ \A key \in global_config.continue_keys :
              OnPress(key) =>
                  /\ report'[1].segment_index = Len(unix_times) - 1
                  /\ report'[1].cumulative = Num(now - Val(unix_times[1]))
                  /\ IsNaN(report'[1].standalone) <=> IsNaN(unix_times[Len(unix_times)])
        /\ TimerEnded' =>
              \A k \in 1..TimerNumSegments :
                  IsNaN(final_times'[k]) <=>
                      (k + 1 > Len(unix_times') \/ IsNaN(unix_times'[k + 1]))
      ]_vars

\* segment 0 was skipped and segment 1 completed: its standalone time is NaN
\* and its cumulative time is not
C5_Witness ==
    /\ dispatched = "continue"
    /\ pc = "running"
    /\ Len(unix_times) = 3
    /\ IsNaN(unix_times[2])
    /\ report # None
    /\ report[1].segment_index = 1
    /\ IsNaN(report[1].standalone)
    /\ ~IsNaN(report[1].cumulative)

\* C6 (Spec): an undo key at Running(i), i >= 1, removes exactly the last
\* timestamp, leaves the timestamps before it (the start among them) as they
\* were, and the loop goes on at Running(i - 1).
C6_Undo ==
    [][ \A key \in global_config.undo_keys :
            (OnPress(key) /\ Len(unix_times) >= 2) =>
                /\ Len(unix_times') = Len(unix_times) - 1
                /\ \A i \in 1..Len(unix_times') : unix_times'[i] = unix_times[i]
                /\ unix_times'[1] = unix_times[1]
                /\ pc' = "running"
      ]_vars

\* an undo left a skipped segment 0 in place and the loop running
C6_Witness ==
    /\ dispatched = "undo"
    /\ pc = "running"
    /\ Len(unix_times) = 2
    /\ IsNaN(unix_times[2])

\* C7 as stated: an undo key with only the start timestamp recorded leaves one
\* fresh start timestamp and the loop running.
C7_Original ==
    [][ \A key \in global_config.undo_keys :
            (OnPress(key) /\ Len(unix_times) = 1) =>
                /\ unix_times' = <<Num(now)>>
                /\ pc' = "running"
      ]_vars

\* C7 as amended (Spec): an undo key with only the start timestamp recorded
\* leaves one fresh start timestamp and ends the session: the loop is left,
\* the final vector is all NaN, nothing is asked and nothing is returned.
C7_UndoAtStart ==
    [][ \A key \in global_config.undo_keys :
            (OnPress(key) /\ Len(unix_times) = 1) =>
                /\ unix_times' = <<Num(now)>>
                /\ pc' = "done"
                /\ Len(final_times') = TimerNumSegments
                /\ AllNaN(final_times')
                /\ asked' = 0
                /\ returned' = None
      ]_vars

\* an undo at Running(0), some time after the start, ended the session with a
\* fresh start timestamp
C7_Witness ==
    /\ dispatched = "undo"
    /\ pc = "done"
    /\ now > 0
    /\ unix_times = <<Num(now)>>
    /\ AllNaN(final_times)
    /\ asked = 0

\* the final vector has length N, holds t[i+1] - t[0] for every recorded
\* t[i+1] and NaN for every later segment
C8_FinalVector ==
    TimerEnded =>
        /\ Len(final_times) = TimerNumSegments
        /\ \A i \in 1..TimerNumSegments :
              final_times[i] = IF i + 1 <= Len(unix_times)
                               THEN Sub(unix_times[i + 1], unix_times[1])
                               ELSE NaN

\* C8 (Spec): whenever the loop of Timer.time has ended, the final vector has
\* length N, final_times[i] = t[i+1] - t[0] for every recorded t[i+1] and NaN
\* for every later segment; an abort key ends the loop and records nothing.
C8_Finalized ==
    [][ /\ \A key \in global_config.abort_keys :
              OnPress(key) => (unix_times' = unix_times /\ TimerEnded')
        /\ C8_FinalVector'
      ]_vars

\* an abort after a skip and a completion: a partial vector was returned
C8_Witness ==
    /\ dispatched = "abort"
    /\ pc = "done"
    /\ Len(unix_times) = 3
    /\ IsNaN(unix_times[2])
    /\ ~IsNaN(final_times[2])
    /\ IsNaN(final_times[TimerNumSegments])
    /\ returned = Some(final_times)

\* C9 as stated: at the end of a session the confirmation is asked (once)
\* exactly when the vector of the session has an entry that is not NaN.
C9_Original ==
    /\ TimerEnded => ((asked = 1) <=> ~AllNaN(final_times))
    /\ ts_pc \in {"confirm", "done"} =>
          ((ts_asked = 1) <=> ~AllNaN(Diff(ts_unix_times)))

\* C9 as amended (Spec): Timer.time asks exactly when its final vector has an
\* entry that is not NaN; TimeSet.time asks exactly when a segment was
\* finished and the store is not empty or the run is complete.  Nobody is
\* asked twice, a run is returned or stored only on a yes, and a no discards
\* it and ends the call normally.
C9_Confirmation ==
    [][ /\ \A key \in Keys :
              (OnPress(key) /\ pc' # "running") =>
                  IF AllNaN(final_times')
                  THEN pc' = "done" /\ asked' = 0 /\ returned' = None
                  ELSE pc' = "confirm" /\ asked' = 1
        /\ \A yes \in BOOLEAN :
              TimerConfirm(yes) =>
                  /\ pc' = "done"
                  /\ asked' = 1
                  /\ returned' = IF yes THEN Some(final_times) ELSE None
        /\ (ts_pc = "prompt" /\ ts_pc' \in {"confirm", "done"}) =>
              IF /\ ~AllNaN(Diff(ts_unix_times'))
                 /\ (StoreBool(times) \/ Len(ts_unix_times') = NumSegments + 1)
              THEN ts_pc' = "confirm" /\ ts_asked' = 1
              ELSE ts_pc' = "done" /\ ts_asked' = 0 /\ times' = times
        /\ \A yes \in BOOLEAN :
              TSConfirm(yes) =>
                  /\ ts_pc' = "done"
                  /\ ts_asked' = 1
                  /\ times' = IF yes
                              THEN Append(times, [date |-> ts_date, segs |-> ts_new_times])
                              ELSE times
      ]_vars

\* a partial run on a store that is not empty was asked about once and refused
C9_Witness ==
    /\ ts_pc = "done"
    /\ ts_answer = Some(FALSE)
    /\ ts_asked = 1
    /\ times # <<>>
    /\ AnyNaN(ts_new_times)

\* C10 (Spec): with an empty store a vector that holds a NaN is never put to
\* the user nor stored, so the first run of the store has no missing value.
C10_FirstRunComplete ==
    /\ times # <<>> => ~AnyNaN(times[1].segs)
    /\ (ts_pc = "confirm" /\ times = <<>>) =>
          (Len(ts_new_times) = NumSegments /\ ~AnyNaN(ts_new_times))

\* a session on the empty store was aborted after its first segment: nothing
\* was asked and the store is still empty
C10_Witness ==
    /\ times = <<>>
    /\ ts_pc = "done"
    /\ ts_asked = 0
    /\ Len(ts_unix_times) >= 2
    /\ Len(ts_unix_times) <= NumSegments

\* a step that is the abort event of a session: the abort key of Timer.time or
\* "abort" typed at the prompt of a segment
AbortEvent ==
    \/ \E key \in Keys : DispatchOf(key) = "abort" /\ OnPress(key)
    \/ \E text \in Inputs : Lower(text) = "abort" /\ TSInput(text)

\* C11 as stated: neither the abort event nor Ctrl-C, at any point of the loop
\* of a session, leaves the timing operation with an error.
C11_Original ==
    [][ (AbortEvent \/ TSInterrupt \/ PedalInterrupt) =>
            (pc' # "raised" /\ ts_pc' # "raised") ]_vars

\* C11 as amended (Spec): the abort event never raises and goes on to the
\* finalization; Ctrl-C while the pedal stream is listened to is caught and
\* keeps the timestamps taken; Ctrl-C at the prompt of a segment is the undo
\* when a segment has been finished and otherwise raises KeyboardInterrupt to
\* the caller; Ctrl-C at the start prompt, at the confirmation and in the loop
\* of Timer.time leaves the call with the error.  No interrupt changes the
\* store, and none returns a run.
C11_Interrupted ==
    [][ /\ AbortEvent =>
              /\ pc' \in {"idle", "confirm", "done"}
              /\ ts_pc' \in {"idle", "confirm", "done"}
        /\ PedalInterrupt =>
              (pedal_pc' = "closed" /\ unix_times' = unix_times /\ times' = times)
        /\ TSInterrupt =>
              /\ times' = times
              /\ ts_unix_times' = Pop(ts_unix_times)
              /\ IF Len(ts_unix_times) >= 2
                 THEN ts_pc' = "prompt"
                 ELSE ts_pc' = "raised"
        /\ (TSStartInterrupt \/ TSConfirmInterrupt) =>
              (ts_pc' = "raised" /\ times' = times)
        /\ TimerInterrupt => (pc' = "raised" /\ returned' = None)
      ]_vars

\* a segment was finished and undone by Ctrl-C, and the next Ctrl-C, with no
\* segment finished, left TimeSet.time with KeyboardInterrupt
C11_Witness ==
    /\ ts_pc = "raised"
    /\ ts_report # None
    /\ ts_unix_times = <<>>
    /\ ts_asked = 0

\* the baselines of a ComparisonSet
Baselines(set) ==
    <<set.current_segments, set.current_cumulatives, set.best_segments, set.best_cumulatives>>

\* C12 (Spec): no event of a session (a key of Timer.time, a pedal press, a
\* line or Ctrl-C at the prompt of TimeSet.time) changes the runs of the store
\* or the ComparisonSet made at the start of the session; the store changes
\* only by the append of the one run of the session, at the yes to the
\* confirmation that follows the loop, and a session that has ended appends
\* nothing more.
C12_Frame ==
    [][ /\ \A key \in Keys :
              OnPress(key) => (times' = times /\ comparison' = comparison)
        /\ \A crosses \in BOOLEAN :
              PedalChunk(crosses) => (times' = times /\ comparison' = comparison)
        /\ \A text \in Inputs :
              TSInput(text) => (times' = times /\ ts_comparison' = ts_comparison)
        /\ TSInterrupt => (times' = times /\ ts_comparison' = ts_comparison)
        /\ comparison' = comparison
        /\ ts_comparison' # ts_comparison =>
              (ts_pc \in {"idle", "done", "raised"} /\ ts_pc' = "start")
        /\ times' # times =>
              /\ ts_pc = "confirm" /\ ts_pc' = "done"
              /\ ts_answer' = Some(TRUE)
              /\ times' = Append(times, [date |-> ts_date, segs |-> ts_new_times])
        /\ (ts_pc \in {"done", "raised"} /\ ts_pc' # ts_pc) => ts_pc' = "start"
      ]_vars

\* a session on a store of one run, begun with the baselines of that run, was
\* confirmed and appended a run unlike the first; its ComparisonSet still holds
\* the baselines it was made with
C12_Witness ==
    /\ ts_pc = "done"
    /\ ts_answer = Some(TRUE)
    /\ Len(times) = 2
    /\ times[2] = [date |-> ts_date, segs |-> ts_new_times]
    /\ times[2].segs # times[1].segs
    /\ ts_comparison # None
    /\ Baselines(ts_comparison[1]) =
          <<Some(times[1].segs), Some(Cumsum(times[1].segs)),
            Some(times[1].segs), Some(Cumsum(times[1].segs))>>

\* the ComparisonSet the store makes for a style
SetOf(style) == make_comparison_set(times, min_best, dtype, style)

\* C13 (SpecStore): the best-ever standalone and the best-ever cumulative
\* baseline of make_comparison_set(style) are the same for every CompareStyle.
C13_BestEverIndependent ==
    \A s1 \in CompareStyle : \A s2 \in CompareStyle :
        /\ SetOf(s1).best_segments = SetOf(s2).best_segments
        /\ SetOf(s1).best_cumulatives = SetOf(s2).best_cumulatives

\* a store on which two styles give different live baselines and the same
\* best-ever baselines, which are not the live baselines of WORST_RUN
C13_Witness ==
    /\ Len(times) = 2
    /\ SetOf("BEST_RUN").current_segments # SetOf("WORST_RUN").current_segments
    /\ SetOf("BEST_RUN").current_cumulatives # SetOf("WORST_RUN").current_cumulatives
    /\ SetOf("BEST_RUN").best_segments = SetOf("WORST_RUN").best_segments
    /\ SetOf("BEST_RUN").best_cumulatives = SetOf("WORST_RUN").best_cumulatives
    /\ SetOf("WORST_RUN").best_segments # SetOf("WORST_RUN").current_segments

\* C14 as stated: on a store that is not empty the best-ever pair equals the
\* pair make_compare_times(BEST_SEGMENTS) returns.
C14_Original ==
    StoreBool(times) =>
        best_compare_times(times, min_best) =
            make_compare_times(times, min_best, dtype, "BEST_SEGMENTS")

\* C14 as amended (SpecStore): on a store that is not empty the best-ever
\* standalone baseline is the BEST_SEGMENTS standalone baseline and the two
\* cumulative baselines agree in the first segment; in every segment the
\* best-ever cumulative time, when it is not missing, is the cumulative time
\* of a stored run and is never better than the BEST_SEGMENTS cumulative time.
C14_BestEver ==
    StoreBool(times) =>
        LET ever == best_compare_times(times, min_best)
            segs == make_compare_times(times, min_best, dtype, "BEST_SEGMENTS")
        IN  /\ ever[1] = segs[1]
            /\ ever[2] # None /\ segs[2] # None
            /\ ever[2][1][1] = segs[2][1][1]
            /\ \A i \in 1..NumSegments :
                  ~IsNaN(ever[2][1][i]) =>
                      /\ \E r \in 1..Len(times) :
                            cumulative_times(times)[r].segs[i] = ever[2][1][i]
                      /\ ~IsNaN(segs[2][1][i])
                      /\ IF min_best THEN ~Less(ever[2][1][i], segs[2][1][i])
                                     ELSE ~Less(segs[2][1][i], ever[2][1][i])

\* a store whose best-ever cumulative baseline is not the running sum of its
\* best standalone times
C14_Witness ==
    /\ Len(times) = 2
    /\ ~AnyNaN(times[1].segs)
    /\ ~AnyNaN(times[2].segs)
    /\ best_compare_times(times, min_best)[2] #
           make_compare_times(times, min_best, dtype, "BEST_SEGMENTS")[2]

\* x is the best value of a column: NaN when every entry is missing, else an
\* entry that is not missing and that no entry beats
IsBestOf(col, mb, x) ==
    IF \A r \in 1..Len(col) : IsNaN(col[r])
    THEN IsNaN(x)
    ELSE /\ ~IsNaN(x)
         /\ \E r \in 1..Len(col) : col[r] = x
         /\ \A q \in 1..Len(col) :
               ~IsNaN(col[q]) => IF mb THEN ~Less(col[q], x) ELSE ~Less(x, col[q])

\* C15 (SpecStore): on a store that is not empty best_compare_times returns,
\* for every segment, the best standalone time over the runs and the best
\* cumulative time over the runs, best being the minimum when min_best and the
\* maximum otherwise, and missing values being left out column by column.
C15_BestCompareTimes ==
    StoreBool(times) =>
        LET ever == best_compare_times(times, min_best)
        IN  /\ ever[1] # None /\ Len(ever[1][1]) = NumSegments
            /\ ever[2] # None /\ Len(ever[2][1]) = NumSegments
            /\ \A i \in 1..NumSegments :
                  /\ IsBestOf(Column(times, i), min_best, ever[1][1][i])
                  /\ IsBestOf(Column(cumulative_times(times), i), min_best, ever[2][1][i])

\* larger is better, a column holds a missing value and two different times,
\* and the larger is the best
C15_Witness ==
    /\ ~min_best
    /\ Len(times) = 2
    /\ IsNaN(times[1].segs[1])
    /\ ~IsNaN(times[1].segs[NumSegments])
    /\ Less(times[1].segs[NumSegments], times[2].segs[NumSegments])
    /\ best_compare_times(times, min_best)[1][1][NumSegments] = times[2].segs[NumSegments]
    /\ best_compare_times(times, min_best)[1][1][1] = times[2].segs[1]

\* C16 (SpecStore): make_compare_times(style) returns the null pair exactly
\* when the store is empty or the style is NONE; otherwise both vectors are
\* not None and have N entries.
C16_NullBaseline ==
    \A style \in CompareStyle :
        LET pair == make_compare_times(times, min_best, dtype, style)
        IN  IF ~StoreBool(times) \/ style = "NONE"
            THEN pair = NullCompareTimes
            ELSE /\ pair[1] # None /\ Len(pair[1][1]) = NumSegments
                 /\ pair[2] # None /\ Len(pair[2][1]) = NumSegments

\* a store with a missing value for which NONE gives the null pair and
\* AVERAGE_SEGMENTS a pair of vectors
C16_Witness ==
    /\ Len(times) = 2
    /\ AnyNaN(times[2].segs)
    /\ make_compare_times(times, min_best, dtype, "NONE") = NullCompareTimes
    /\ make_compare_times(times, min_best, dtype, "AVERAGE_SEGMENTS")[1] # None

\* the final cumulative time of every run of the store
FinalCumulatives == Column(cumulative_times(times), NumSegments)

\* run r (1-based) has the best (best = TRUE) or the worst (best = FALSE) final
\* cumulative time among the runs whose final cumulative time is not NaN; any
\* run will do when every final cumulative time is NaN
IsExtremeRun(r, best) ==
    IF AllNaN(FinalCumulatives) THEN TRUE
    ELSE /\ ~IsNaN(FinalCumulatives[r])
         /\ \A q \in 1..Len(times) :
               ~IsNaN(FinalCumulatives[q]) =>
                   IF min_best = best
                   THEN ~Less(FinalCumulatives[q], FinalCumulatives[r])
                   ELSE ~Less(FinalCumulatives[r], FinalCumulatives[q])

\* the baseline pair taken from run r: its stored standalone times and its row
\* of cumulative_times
PairOfRun(r) == <<Some(times[r].segs), Some(cumulative_times(times)[r].segs)>>

\* C17 as stated: on a store that is not empty the BEST_RUN, WORST_RUN and
\* LAST_RUN baselines are the standalone times and the row of cumulative_times
\* of one run: a run with the best final cumulative time, a run with the worst
\* final cumulative time, and the run appended last.
C17_Original ==
    StoreBool(times) =>
        /\ \E r \in 1..Len(times) :
              /\ IsExtremeRun(r, TRUE)
              /\ make_compare_times(times, min_best, dtype, "BEST_RUN") = PairOfRun(r)
        /\ \E r \in 1..Len(times) :
              /\ IsExtremeRun(r, FALSE)
              /\ make_compare_times(times, min_best, dtype, "WORST_RUN") = PairOfRun(r)
        /\ make_compare_times(times, min_best, dtype, "LAST_RUN") = PairOfRun(Len(times))

\* C18 (SpecStore): on a store that is not empty and has no missing value, with
\* a best run of final cumulative time F, the BALANCED_BEST standalone baseline
\* is best_segments[i] + (sum over j of (best_run[j] - best_segments[j])) / N in
\* every segment i, its entries sum to F, and the last entry of the cumulative
\* baseline is F.
C18_BalancedBest ==
    (StoreBool(times) /\ \A r \in 1..Len(times) : ~AnyNaN(times[r].segs)) =>
        LET pair == make_compare_times(times, min_best, dtype, "BALANCED_BEST")
            standalone == pair[1][1]
            cumulative == pair[2][1]
            segs == best_times(times, min_best)
        IN  \E r \in 1..Len(times) :
                /\ IsExtremeRun(r, TRUE)
                /\ LET F == SumOfFirst(times[r].segs, NumSegments)
                       saves == F - SumOfFirst(segs, NumSegments)
                   IN  /\ \A i \in 1..NumSegments :
                             Numer(standalone[i]) * NumSegments =
                                 (NumSegments * Val(segs[i]) + saves) * Denom(standalone[i])
                       /\ NpSum(standalone, NumSegments) = Num(F)
                       /\ cumulative[NumSegments] = Num(F)

\* the best segments come from two runs, so that time is saved and spread:
\* the balanced times are neither the best segments nor the best run
C18_Witness ==
    /\ Len(times) = 2
    /\ \A r \in 1..Len(times) : ~AnyNaN(times[r].segs)
    /\ LET pair == make_compare_times(times, min_best, dtype, "BALANCED_BEST")
       IN  /\ pair[1][1] # best_times(times, min_best)
           /\ pair[1][1] # times[best_run_index(times, min_best, dtype) + 1].segs
           /\ Less(best_times(times, min_best)[1], pair[1][1][1]) = min_best

\* what make_compare_times hands back when it returns: the null pair or a pair
\* of vectors
IsReturnedPair(pair) ==
    \/ pair = NullCompareTimes
    \/ Len(pair) = 2 /\ pair[1] # None /\ pair[2] # None

\* C19 as stated: on a store whose best run has a missing segment the request
\* of the BALANCED_BEST baseline fails and returns no baseline.
C19_Original ==
    (/\ StoreBool(times)
     /\ AnyNaN(times[best_run_index(times, min_best, dtype) + 1].segs)) =>
        ~IsReturnedPair(make_compare_times(times, min_best, dtype, "BALANCED_BEST"))

\* C20 as stated: while a run has a final cumulative time that is not NaN,
\* extreme_run_index(best) is the index of a run whose final cumulative time is
\* not NaN and is the minimum (when min_best = best) or the maximum (otherwise)
\* of the final cumulative times that are not NaN.
C20_Original ==
    (StoreBool(times) /\ ~AllNaN(FinalCumulatives)) =>
        \A best \in BOOLEAN :
            IsExtremeRun(extreme_run_index(times, min_best, dtype, best) + 1, best)

\* C21 as stated: a call of add_row with a vector whose length is not the
\* number of segments, shorter or longer, leaves the store unchanged (and so
\* every run of the store has exactly that many values).
C21_Original ==
    [][\A segment_times \in AddRowVectors :
           (Len(segment_times) # NumSegments /\ AddRow(segment_times)) =>
               times' = times]_vars

\* C22 as stated, for the copy: the copy of any store, a store with missing
\* segment times included, is equal to the store it was made from.
C22_Original ==
    LET self == TimeSet(times, min_best)
    IN  __eq__(self, copy(self))

RECURSIVE PresentTotal(_, _)
PresentTotal(tms, n) ==
    IF n = 0 THEN 0
    ELSE PresentTotal(tms, n - 1) +
         SumOfFirst([c \in 1..NumSegments |->
                        IF IsNaN(tms[n].segs[c]) THEN Num(0) ELSE tms[n].segs[c]],
                    NumSegments)

\* C24 as stated: total_time_spent is the sum of the standalone times that are
\* not missing, whatever runs with missing times the store holds.
C24_Original == total_time_spent(times) = Num(PresentTotal(times, Len(times)))

\* the runs a session can add to the store, and the styles it can compare with
NewRuns == [1..NumSegments -> Floats]
GoldStyles == {"NONE", "BEST_RUN", "BEST_SEGMENTS", "LAST_RUN"}

\* the time t is better than every time stored in the column (strictly), or as
\* good as the best of them and better than the others (~strictly); a column
\* without a time has no best to beat or to match
BeatsColumn(t, column, strictly) ==
    /\ ~IsNaN(t)
    /\ ~AllNaN(column)
    /\ \A r \in 1..Len(column) :
          ~IsNaN(column[r]) =>
              IF strictly
              THEN IF min_best THEN Val(t) < Val(column[r]) ELSE Val(t) > Val(column[r])
              ELSE IF min_best THEN Val(t) <= Val(column[r]) ELSE Val(t) >= Val(column[r])

\* what the session prints for segment i (1-based) of the run
SplitOutput(run, style, i) ==
    print_segment_terminal_output(make_comparison_set(times, min_best, dtype, style),
                                  i - 1, run[i], Cumsum(run)[i])

IsGold(output) == output.code = COLOR_DICT["yellow"]

\* C25 as stated: a new run whose every segment time matches or beats the
\* all-time best standalone time of its segment is BETTER than the best-ever
\* baseline on every segment, and every segment time is printed in gold.
C25_Original ==
    \A run \in NewRuns :
        (\A i \in 1..NumSegments : BeatsColumn(run[i], Column(times, i), FALSE)) =>
            \A i \in 1..NumSegments :
                /\ compare(best_compare_times(times, min_best)[1], i - 1, run[i],
                           min_best).discrete = "BETTER"
                /\ \A style \in GoldStyles : IsGold(SplitOutput(run, style, i).segment)

\* C25 (SpecStore): a new run whose every segment time beats the all-time best
\* standalone time of its segment is BETTER than the best-ever standalone
\* baseline on every segment and every segment time is printed in gold; a
\* segment time equal to the all-time best of its segment is EQUAL to the
\* best-ever baseline and is not printed in gold.
C25_Gold ==
    \A run \in NewRuns :
        /\ (\A i \in 1..NumSegments : BeatsColumn(run[i], Column(times, i), TRUE)) =>
               \A i \in 1..NumSegments, style \in GoldStyles :
                   LET output == SplitOutput(run, style, i)
                   IN  /\ compare(best_compare_times(times, min_best)[1], i - 1, run[i],
                                  min_best).discrete = "BETTER"
                       /\ IsGold(output.segment)
        /\ \A i \in 1..NumSegments :
               (/\ BeatsColumn(run[i], Column(times, i), FALSE)
                /\ ~BeatsColumn(run[i], Column(times, i), TRUE)) =>
                   /\ compare(best_compare_times(times, min_best)[1], i - 1, run[i],
                              min_best).discrete = "EQUAL"
                   /\ \A style \in GoldStyles : ~IsGold(SplitOutput(run, style, i).segment)

\* a store of two runs with a best time in every segment, from different runs,
\* and a new run that beats them all: its last segment time is in gold
C25_Witness ==
    /\ Len(times) = 2
    /\ times[1].segs # times[2].segs
    /\ \E run \in NewRuns :
          /\ \A i \in 1..NumSegments : BeatsColumn(run[i], Column(times, i), TRUE)
          /\ IsGold(SplitOutput(run, "BEST_RUN", NumSegments).segment)

\* the step is a press of the pedal: the timer is started or a time is added
PedalPressed == unix_times' # unix_times \/ _started' # _started

\* C26 (Spec): a chunk is a press exactly when it goes below the threshold and
\* the chunk before it, if any, did not; the first press only starts the timer
\* (the timestamps become [now], nothing is reported, the stream goes on); every
\* later press completes the current segment (it appends the time of the press,
\* a real timestamp, and removes nothing), and the stream is signalled complete
\* with the press that completes the last segment, and with no other.
C26_Pedal ==
    [][\A crosses \in BOOLEAN :
           PedalChunk(crosses) =>
               /\ PedalPressed <=> (crosses /\ chunk # Some(TRUE))
               /\ PedalPressed =>
                      IF unix_times = <<>>
                      THEN /\ unix_times' = <<Num(now)>>
                           /\ report' = report
                           /\ pedal_pc' = "listening"
                      ELSE /\ unix_times' = Append(unix_times, Num(now))
                           /\ report' # report
                           /\ pedal_pc' = "closed" <=>
                                  Len(unix_times') = TimerNumSegments + 1
               /\ ~PedalPressed => pedal_pc' = "listening"]_vars

\* the stream closed by the press that completed the last segment
C26_Witness ==
    /\ frontend = "pedal"
    /\ pedal_pc = "closed"
    /\ chunk = Some(TRUE)
    /\ Len(unix_times) = TimerNumSegments + 1
    /\ \A i \in 1..Len(unix_times) : ~IsNaN(unix_times[i])

\* the timer has been started: Timer.time is past its restart, or the pedal
\* has been pressed
TimerStarted == pc # "idle" \/ _started

\* the timestamp list has 1 to N + 1 entries and begins with a real time
TimestampsInRange ==
    /\ Len(unix_times) \in 1..(TimerNumSegments + 1)
    /\ ~IsNaN(unix_times[1])

\* C29 (Spec): once the timer is started, after every event (a key bound to
\* continue, skip, undo or abort, a key bound to nothing, a press of the pedal)
\* the timestamp list has between 1 and N + 1 entries and its first entry is
\* not NaN; a key bound to no action leaves the list as it was.
C29_Timestamps ==
    [][/\ (TimerStarted => TimestampsInRange)'
       /\ \A key \in Keys :
              (OnPress(key) /\ DispatchOf(key) = "none") => unix_times' = unix_times]_vars

\* a run brought to its end with a skipped segment and an undo on the way: the
\* list is full, N + 1 entries
C29_Witness ==
    /\ frontend = "timer"
    /\ pc \in {"confirm", "done"}
    /\ Len(unix_times) = TimerNumSegments + 1
    /\ AnyNaN(unix_times)

\* C30 as stated: after any sequence of assignments to the configuration, no
\* key is in two of the lists skip_keys, abort_keys, continue_keys and
\* undo_keys of the values in memory.
C30_Original ==
    \A config_key \in KeyVariables, other_key \in KeyVariables :
        config_key # other_key =>
            \A i \in 1..Len(config_values[config_key]),
               j \in 1..Len(config_values[other_key]) :
                config_values[config_key][i] # config_values[other_key][j]

\* the tasks of the index, and the strings that are the name or an alias of one
Tasks == {timed_tasks[name] : name \in DOMAIN timed_tasks}
NamesAndAliases == UNION {{task.name} \cup task.aliases : task \in Tasks}

\* every string that is a name or an alias, and every key of the alias
\* dictionary, is the name or an alias of exactly one task of the index, and
\* that task is what the lookup of the string returns
EveryNameResolves ==
    /\ \A name \in DOMAIN timed_tasks : timed_tasks[name].name = name
    /\ \A string \in NamesAndAliases \cup DOMAIN alias_dictionary :
          /\ Cardinality({task \in Tasks :
                              string = task.name \/ string \in task.aliases}) = 1
          /\ GetItem(Index, string) # None
          /\ LET task == GetItem(Index, string)[1]
             IN  string = task.name \/ string \in task.aliases

IndexUnchanged == UNCHANGED <<timed_tasks, alias_dictionary, directories>>

\* C27 (SpecIndex): after every call of new_timed_task, add_alias, add_aliases,
\* remove_alias and remove_aliases (and of delete) every name and every alias
\* resolves to exactly one task of the index; add_alias on a task of the index
\* with a string that is a name or an alias of a task, and new_timed_task with
\* a name that is a name or an alias of a task, raise ValueError and leave the
\* index as it was.
C27_Index ==
    [][/\ EveryNameResolves'
       /\ index_called' = "add_alias" =>
              \A key \in NamesAndAliases, new_alias \in NamesAndAliases :
                  AddAlias(key, new_alias) =>
                      (index_raised' = "ValueError" /\ IndexUnchanged)
       /\ index_called' = "new_timed_task" =>
              \A name \in NamesAndAliases,
                 aliases \in {None} \cup {Some(l) : l \in AliasLists} :
                  NewTimedTask(name, aliases) =>
                      (index_raised' = "ValueError" /\ IndexUnchanged)]_vars

\* two tasks with an alias each, and add_alias just rejected
C27_Witness ==
    /\ Cardinality(DOMAIN timed_tasks) = 2
    /\ \A task \in Tasks : task.aliases # {}
    /\ index_called = "add_alias"
    /\ index_raised = "ValueError"

\* the index after the step
IndexAfter == TaskIndex(timed_tasks', alias_dictionary', directories')

====
